---- MODULE Spec2Model ----
(***************************************************************************)
(* Model of the sreq request dispatch pipeline (package sreq):             *)
(* Client setters, Request setters, the multipart encoder goroutine,       *)
(* Client.Do with its interceptors and the retry loop of doWithRetry.      *)
(*                                                                         *)
(* One Client, one Request and one dispatch of that Request are modelled.  *)
(* Time is a discrete clock that advances only while the dispatch runs;    *)
(* deadlines and delays are durations measured from the start of Do.       *)
(***************************************************************************)
EXTENDS Integers, Sequences, FiniteSets, TLC

\* ------------------------------------------------------------------ bounds
MaxAttempts == 2       \* largest attempts value passed to SetRetry
MaxDelay == 2          \* largest inter-attempt delay passed to SetRetry
MaxTimeout == 3        \* largest per-request timeout / context deadline
MaxInterceptors == 2   \* largest number of interceptors registered per list
MaxMultipart == 1      \* largest number of SetMultipart calls on the request
MaxBody == 2           \* largest number of bytes in a response body
MaxCalls == 3          \* largest number of methods called on one Response
MaxCertificates == 1   \* largest number of certificates appended to the TLS configuration
MaxDispatches == 2     \* largest number of other dispatches that run beside the modelled one
MaxHeld == 2           \* largest number of values that a query key or a header holds

\* ------------------------------------------------------------------ errors
\* An error value is a pair <<type, detail>>; Nil is the nil error.
Nil == <<"nil", "">>
ClientError(cause) == <<"ClientError", cause>>
RequestError(cause) == <<"RequestError", cause>>
Canceled == <<"context", "canceled">>
DeadlineExceeded == <<"context", "deadline exceeded">>
\* the *url.Error returned by http.Client.Do; detail names the wrapped error
URLError(detail) == <<"url.Error", detail>>
RequestInterceptorError(id) == <<"RequestInterceptor", id>>
ResponseInterceptorError(id) == <<"ResponseInterceptor", id>>

\* capacity of the channel Request.errBackground: make(chan error, 1)
ErrBackgroundCap == 1

BadStatus(code) == <<"sreq: bad status", ToString(code)>>
ReadOnClosedBody == <<"error", "read on closed response body">>
DecodeError == <<"error", "decode">>
FileError == <<"error", "file">>
ErrNilCookieJar == <<"error", "sreq: nil cookie jar">>
ErrJarCookiesNotPresent == <<"error", "sreq: cookies for the given URL not present">>
ErrJarNamedCookieNotPresent ==
  <<"error", "sreq: named cookie for the given URL not present">>
URLParseError == <<"error", "parse">>
\* the error of gzip.NewReader (gzip.ErrHeader, io.EOF or io.ErrUnexpectedEOF)
GzipError == <<"error", "gzip">>
\* "gzip" in bytes
gzip == <<103, 122, 105, 112>>
ErrResponseCookiesNotPresent == <<"error", "cookies not present">>
ErrResponseNamedCookieNotPresent == <<"error", "named cookie not present">>

\* ------------------------------------------------------------- input sets
\* argument lists of UseRequestInterceptors / UseResponseInterceptors
InterceptorArgs == {<<"a">>, <<"b">>, <<"a", "b">>}
\* argument lists (conditions ...) of SetRetry
ConditionArgs == {<<>>, <<"p">>, <<"p", "q">>, <<"q", "p">>}
FileKinds == {"ok", "noname", "copyerr"}

\* ------------------------------------------------------------------- state
VARIABLES
  \* Client
  cErr,                  \* Client.Err
  requestInterceptors,   \* Client.requestInterceptors
  responseInterceptors,  \* Client.responseInterceptors
  cRetry,                \* Client.retry: <<>> (nil) or <<policy>>
  cRetryArg,             \* attempts passed to the last Client.SetRetry, -1 if none
  \* Request
  reqErr,                \* Request.Err
  rErrCause,             \* the error that Request.Err wraps, "" for none
  rawRequest,            \* Request.RawRequest # nil
  timeout,               \* Request.timeout
  rRetry,                \* Request.retry: <<>> (nil) or <<policy>>
  rRetryArg,             \* attempts passed to the last Request.SetRetry, -1 if none
  errBackground,         \* Request.errBackground: the buffered channel (capacity 1)
  reqCtx,                \* RawRequest.Context(): [user: deadline or 0, mps: cancel contexts in the chain]
  body,                  \* RawRequest.Body: [kind, pipe]
  \* multipart encoder goroutines, one per SetMultipart call
  enc,
  \* the dispatch (Client.Do)
  pc,                    \* position of the caller
  i,                     \* loop index of doWithRetry
  retry,                 \* effective retry policy
  toDeadline,            \* deadline of the context.WithTimeout child, 0 if none
  ctxErr,                \* ctx.Err() of the effective context
  ctxDoneAt,             \* time at which the effective context became done
  resp,                  \* the Response: [raw, err]
  sleepStart,            \* time at which the inter-attempt select was entered
  exCtxOk,               \* the context was not done when the exchange began
  exBodyOk,              \* the body could be read when the exchange began
  receiver,              \* the Client whose Do runs: "c" or "DefaultClient"
  now,                   \* the clock
  \* history of the dispatch
  reqLog,                \* request interceptors invoked: <<[id, failed]>>
  respLog,               \* response interceptors invoked
  condLog,               \* retry predicates evaluated after the last exchange
  exchanges,             \* number of calls of Client.do
  lastExch,              \* what the last call of Client.do returned
  hist,                  \* observations of the attempt loop
  \* the raw HTTP client
  rawClient,             \* Client.RawClient: [Transport, CheckRedirect, Jar, Timeout]
  cErrCause,             \* the Err field of the ClientError in Client.Err, "" if none
  \* client-level and request-level settings merged by Do
  clientSettings,        \* Client: [Host, Headers, auth, bearerToken, ctx]
  requestSettings,       \* Request: [Host, Headers, auth, bearerToken, ctx]
  outbound,              \* RawRequest as sent: [Host, Header, ctx]
  \* the Response after Do
  respBody,              \* Response.body: <<>> (nil) or <<bytes>>
  stream,                \* RawResponse.Body: [data, pos, closed, length]
  pooled,                \* Response.body shares its memory with a buffer of bufPool
  ret,                   \* what the last method called on the Response returned
  reads,                 \* number of calls that read from RawResponse.Body
  closes,                \* number of calls of RawResponse.Body.Close
  nCalls,                \* number of methods called on the Response
  uncached,              \* Save or Verbose consumed the stream
  \* setters called after a sticky error
  cLate,                 \* Client setters called while Client.Err was set (up to 2)
  rLate,                 \* Request setters called while Request.Err was set (up to 2)
  jarCookies,            \* the cookies that the jar of c holds for the URL
  \* a Values or Headers map
  kv,                    \* the map: keys (strings as byte sequences) to values
  kvOut,                 \* what Encode or String returned last: the op, the map it was called of, the pairs written
  \* other dispatches of c that run at the same time
  concurrent,            \* one per call of c.Do with another Request: [pc, start, end]
  rawQuery               \* RawRequest.URL.RawQuery: the pairs [k, v, ok] in the order written

clientVars == <<cErr, requestInterceptors, responseInterceptors, cRetry, cRetryArg>>
requestVars == <<reqErr, rErrCause, rawRequest, timeout, rRetry, rRetryArg, errBackground, reqCtx, body>>
doVars == <<pc, i, retry, toDeadline, resp, sleepStart, exCtxOk, exBodyOk, receiver>>
logVars == <<reqLog, respLog, condLog, exchanges, lastExch, hist>>
ctxVars == <<ctxErr, ctxDoneAt>>
rawClientVars == <<rawClient, cErrCause>>
mergeVars == <<clientSettings, requestSettings, outbound>>
responseVars == <<respBody, stream, pooled, ret, reads, closes, nCalls, uncached>>
lateVars == <<cLate, rLate>>
kvVars == <<kv, kvOut>>
vars == <<clientVars, requestVars, enc, doVars, ctxVars, now, logVars,
          rawClientVars, mergeVars, responseVars, lateVars, jarCookies, kvVars, concurrent, rawQuery>>

defaultRetry == [attempts |-> 1, delay |-> 0, conditions |-> <<>>]
NilResponse == [raw |-> "nil", err |-> Nil]
NoBody == [kind |-> "none", pipe |-> 0, getBody |-> "", data |-> <<>>,
           shared |-> FALSE, read |-> FALSE]

\* DefaultTransport(): an *http.Transport that takes its proxy from the
\* environment and has no TLS configuration
NoTLSClientConfig == [set |-> FALSE, Certificates |-> 0, RootCAs |-> FALSE,
                      InsecureSkipVerify |-> FALSE]
DefaultTransport == [kind |-> "http", Proxy |-> "ProxyFromEnvironment",
                     TLSClientConfig |-> NoTLSClientConfig]
\* a nil RoundTripper, and one that is not an *http.Transport
NilTransport == [kind |-> "nil", Proxy |-> "nil", TLSClientConfig |-> NoTLSClientConfig]
OtherTransport == [kind |-> "other", Proxy |-> "nil", TLSClientConfig |-> NoTLSClientConfig]
Transports == {DefaultTransport, NilTransport, OtherTransport}
\* the errors a ClientError wraps
ErrUnexpectedTransport == "ErrUnexpectedTransport"
ErrNilContext == "ErrNilContext"
ParseError == "parse error"
MarshalError == "marshal error"
ReadFileError == "read file error"
\* the header names of the model in the spelling of
\* http.CanonicalHeaderKey, and the spellings callers use
HeaderNames == {"Referer", "Origin", "Authorization", "Content-Type", "User-Agent"}
Spellings == {"Referer", "referer", "Origin"}
CanonicalHeaderKey(k) == IF k = "referer" THEN "Referer" ELSE k
\* an http.Header without entries
NoHeader == [n \in HeaderNames |-> <<>>]
defaultUserAgent == <<"go-sreq/", "Version">>
\* http.Header.Set and http.Header.Add
HeaderSet(h, k, v) == [h EXCEPT ![CanonicalHeaderKey(k)] = <<v>>]
HeaderAdd(h, k, v) == [h EXCEPT ![CanonicalHeaderKey(k)] = Append(@, v)]
\* header values are tuples of strings; base64 is kept symbolic
basicAuth(username, password) == <<"base64", username, ":", password>>
BasicValue(a) == <<"Basic ">> \o basicAuth(a[1], a[2])
BearerValue(token) == <<"Bearer ", token>>

\* the bytes of a body that is not a pipe: "{}" and a line feed, as
\* json.Encoder writes them
Payload == <<123, 125, 10>>

\* Request.SetBody: RawRequest.Body becomes the reader; GetBody and
\* ContentLength are set for a buffer or a reader over bytes or a string and
\* left as they are for any other reader (getBody names the body they are of)
\* data are the bytes that the reader reads (those of a pipe are the
\* encoder's), shared tells that they lie in the memory of a buffer of
\* bufPool, read that the reader was read to its end.
SetBody(old, kind, pipe) ==
  [kind |-> kind, pipe |-> pipe,
   getBody |-> IF kind = "pipe" THEN old.getBody ELSE kind,
   data |-> IF kind = "pipe" THEN <<>> ELSE Payload,
   shared |-> kind = "json", read |-> FALSE]

\* Request.SetContentType on the RawRequest raw
SetContentType(raw, contentType) ==
  [raw EXCEPT !.Header = HeaderSet(@, "Content-Type", contentType)]

\* mw.FormDataContentType() of the n-th multipart writer: each writer has a
\* boundary of its own
FormDataContentType(n) == <<"multipart/form-data; boundary=", ToString(n)>>
\* the settings a Client or a Request holds for the merge of Do: Headers is a
\* map from spellings to values, auth <<>> (nil) or <<username, password>>,
\* ctx "" (nil) or the name of a context
NoSettings == [Host |-> "", Headers |-> <<>>, auth |-> <<>>, bearerToken |-> "",
               ctx |-> ""]
\* what the last call on the Response returned: val for the bytes or text
\* (<<>> is nil, <<b>> the bytes b), err for the error
NoReturn == [op |-> "none", val |-> <<>>, err |-> Nil]
\* a body of RawResponse: the bytes the server sends, how many of them have
\* been read, whether Close was called; length is ContentLength (-1: unknown),
\* vend the number of bytes a decoder needs to see to return, valid whether
\* it returns without error.  With it go the StatusCode and the cookies
\* (<<name, value>> each) of the RawResponse it belongs to, and its
\* Content-Encoding header (a byte sequence); sent is what the transport
\* hands over as Body ("body", or "gzip.Reader" for a transport that
\* decompresses by itself), gzOk whether the bytes begin with a gzip header;
\* reader is what Body is after Client.do, wraps the number of decompressors
\* that Client.do put around it, underClosed whether Client.do closed the
\* body that the transport handed over.
ResponseBody(data, length, vend, valid) ==
  [data |-> data, pos |-> 0, closed |-> FALSE, length |-> length,
   vend |-> vend, valid |-> valid, status |-> 200, cookies |-> <<>>,
   encoding |-> <<>>, sent |-> "body", gzOk |-> FALSE,
   reader |-> "body", wraps |-> 0, underClosed |-> FALSE, canceled |-> FALSE]
EmptyBody == ResponseBody(<<>>, 0, 0, FALSE)
InitHist == [stopAt |-> 0, allTrue |-> TRUE, nEval |-> 0, shouldRetry |-> FALSE,
             seen |-> "none", ctxAtCheck |-> Nil, pending |-> Nil,
             lateExchange |-> FALSE,
             loopResp |-> NilResponse, bodies |-> <<>>, unclosed |-> 0]

\* NewRequest: an invalid method or URL leaves RawRequest nil and sets Err.
NewRequest(valid) ==
  /\ rawRequest = valid
  /\ reqErr = IF valid THEN Nil ELSE RequestError("NewRequest")
  /\ rErrCause = IF valid THEN "" ELSE ParseError
  /\ timeout = 0 /\ rRetry = <<>> /\ rRetryArg = -1
  /\ errBackground = <<>>
  /\ reqCtx = [user |-> 0, mps |-> {}]
  /\ body = NoBody
  /\ requestSettings = NoSettings

\* New: a Client without error, interceptors or retry policy.
New ==
  /\ cErr = Nil
  /\ requestInterceptors = <<>> /\ responseInterceptors = <<>>
  /\ cRetry = <<>> /\ cRetryArg = -1
  /\ rawClient = [Transport |-> DefaultTransport, CheckRedirect |-> "nil",
                  Jar |-> "cookiejar", Timeout |-> "DefaultTimeout"]
  /\ cErrCause = ""
  /\ clientSettings = NoSettings

\* The state before any setter is called; bodies are the bodies the server
\* may answer with.
InitOf(bodies, queries) ==
  /\ New
  /\ \E valid \in BOOLEAN : NewRequest(valid)
  /\ enc = <<>>
  /\ pc = "setup" /\ i = 0 /\ retry = defaultRetry /\ toDeadline = 0
  /\ ctxErr = Nil /\ ctxDoneAt = 0 /\ resp = NilResponse /\ sleepStart = 0
  /\ exCtxOk = FALSE /\ exBodyOk = FALSE /\ receiver = "c"
  /\ now = 0
  /\ reqLog = <<>> /\ respLog = <<>> /\ condLog = <<>>
  /\ exchanges = 0 /\ lastExch = NilResponse /\ hist = InitHist
  /\ outbound = [Host |-> "url", ctx |-> "background",
                 Header |-> HeaderSet(NoHeader, "User-Agent", defaultUserAgent)]
  /\ \E q \in queries : rawQuery = q
  /\ cLate = 0 /\ rLate = 0 /\ jarCookies = <<>> /\ concurrent = <<>>
  /\ kv = <<>> /\ kvOut = [op |-> "none", of |-> <<>>, pairs |-> <<>>]
  /\ \E b \in bodies : stream = b
  /\ respBody = <<>> /\ pooled = FALSE /\ ret = NoReturn
  /\ reads = 0 /\ closes = 0 /\ nCalls = 0 /\ uncached = FALSE

InitWith(bodies) == InitOf(bodies, {<<>>})

Init == InitWith({EmptyBody})

\* ----------------------------------------------------------- Client setters
\* what a setter of the raw HTTP client leaves alone
RawClientSetterFrame ==
  /\ UNCHANGED <<requestInterceptors, responseInterceptors, cRetry, cRetryArg>>
  /\ UNCHANGED <<requestVars, enc, doVars, ctxVars, now, logVars>>
  /\ UNCHANGED <<mergeVars, responseVars, rLate, jarCookies, kvVars, concurrent, rawQuery>>

\* a setter called on a Client whose Err is set is counted
LateClientCall == cLate' = IF cErr # Nil /\ cLate < 2 THEN cLate + 1 ELSE cLate

\* a setter called on a Request whose Err is set is counted
LateRequestCall == rLate' = IF reqErr # Nil /\ rLate < 2 THEN rLate + 1 ELSE rLate

\* Client.httpTransport: the error it returns, "" for none
httpTransport == IF rawClient.Transport.kind = "http" THEN "" ELSE ErrUnexpectedTransport

\* Client.raiseError
raiseError(cause, err) == cErr' = ClientError(cause) /\ cErrCause' = err

\* Client.Raw
ClientRaw == [raw |-> rawClient, err |-> cErr]

\* a SetTransport that stores the transport whatever Err is
SetTransportUnchecked(transport) ==
  /\ pc = "setup"
  /\ rawClient' = [rawClient EXCEPT !.Transport = transport]
  /\ UNCHANGED <<cErr, cErrCause>>
  /\ LateClientCall
  /\ RawClientSetterFrame

\* Client.SetTransport
SetTransport(transport) ==
  /\ pc = "setup"
  /\ rawClient' = IF cErr # Nil THEN rawClient
                  ELSE [rawClient EXCEPT !.Transport = transport]
  /\ UNCHANGED <<cErr, cErrCause>>
  /\ LateClientCall
  /\ RawClientSetterFrame

\* Client.SetRedirect, and DisableRedirect through it
SetRedirect(policy) ==
  /\ pc = "setup"
  /\ rawClient' = IF cErr # Nil THEN rawClient
                  ELSE [rawClient EXCEPT !.CheckRedirect = policy]
  /\ UNCHANGED <<cErr, cErrCause>>
  /\ LateClientCall
  /\ RawClientSetterFrame

\* Client.SetCookieJar, and DisableSession through it
SetCookieJar(jar) ==
  /\ pc = "setup"
  /\ rawClient' = IF cErr # Nil THEN rawClient ELSE [rawClient EXCEPT !.Jar = jar]
  /\ UNCHANGED <<cErr, cErrCause>>
  /\ LateClientCall
  /\ RawClientSetterFrame

\* Client.SetTimeout
ClientSetTimeout(t) ==
  /\ pc = "setup"
  /\ rawClient' = IF cErr # Nil THEN rawClient ELSE [rawClient EXCEPT !.Timeout = t]
  /\ UNCHANGED <<cErr, cErrCause>>
  /\ LateClientCall
  /\ RawClientSetterFrame

\* the body that SetProxy, SetTLSClientConfig, AppendClientCertificates and
\* DisableVerify share: the transport must be an *http.Transport, and is
\* stored as changed
TransportSetter(cause, changed) ==
  IF cErr # Nil
    THEN UNCHANGED <<cErr, cErrCause, rawClient>>
    ELSE IF httpTransport # ""
      THEN raiseError(cause, httpTransport) /\ UNCHANGED rawClient
      ELSE /\ rawClient' = [rawClient EXCEPT !.Transport = changed]
           /\ UNCHANGED <<cErr, cErrCause>>

\* Client.SetProxy, and DisableProxy through it
SetProxy(proxy) ==
  /\ pc = "setup"
  /\ TransportSetter("SetProxy", [rawClient.Transport EXCEPT !.Proxy = proxy])
  /\ LateClientCall
  /\ RawClientSetterFrame

\* Client.SetProxyFromURL: a malformed URL raises the sticky ClientError,
\* a well-formed one goes to SetProxy.
SetProxyFromURL(valid) ==
  /\ pc = "setup"
  /\ IF cErr = Nil /\ ~valid
       THEN raiseError("SetProxyFromURL", ParseError) /\ UNCHANGED rawClient
       ELSE TransportSetter("SetProxy", [rawClient.Transport EXCEPT !.Proxy = "ProxyURL"])
  /\ LateClientCall
  /\ RawClientSetterFrame

\* Client.SetTLSClientConfig
SetTLSClientConfig(config) ==
  /\ pc = "setup"
  /\ TransportSetter("SetTLSClientConfig",
                     [rawClient.Transport EXCEPT !.TLSClientConfig = config])
  /\ LateClientCall
  /\ RawClientSetterFrame

\* Client.AppendClientCertificates with one certificate
AppendClientCertificates ==
  /\ pc = "setup"
  /\ rawClient.Transport.TLSClientConfig.Certificates < MaxCertificates
  /\ TransportSetter("AppendClientCertificates",
                     [rawClient.Transport EXCEPT
                        !.TLSClientConfig.set = TRUE,
                        !.TLSClientConfig.Certificates = @ + 1])
  /\ LateClientCall
  /\ RawClientSetterFrame

\* Client.AppendRootCAs: the transport's TLSClientConfig and RootCAs are
\* allocated before the file is read, so they stay when reading fails.
AppendRootCAs(fileOk) ==
  /\ pc = "setup"
  /\ IF cErr # Nil
       THEN UNCHANGED <<cErr, cErrCause, rawClient>>
       ELSE IF httpTransport # ""
         THEN raiseError("AppendRootCAs", httpTransport) /\ UNCHANGED rawClient
         ELSE /\ rawClient' = [rawClient EXCEPT
                                 !.Transport.TLSClientConfig.set = TRUE,
                                 !.Transport.TLSClientConfig.RootCAs = TRUE]
              /\ IF fileOk
                   THEN UNCHANGED <<cErr, cErrCause>>
                   ELSE raiseError("AppendRootCAs", ReadFileError)
  /\ LateClientCall
  /\ RawClientSetterFrame

\* Client.DisableVerify
DisableVerify ==
  /\ pc = "setup"
  /\ TransportSetter("DisableVerify",
                     [rawClient.Transport EXCEPT
                        !.TLSClientConfig.set = TRUE,
                        !.TLSClientConfig.InsecureSkipVerify = TRUE])
  /\ LateClientCall
  /\ RawClientSetterFrame

\* a SetRetry that stores whatever it is given
StoreRetryAny(old, attempts, delay, conditions) ==
  <<[attempts |-> attempts, delay |-> delay, conditions |-> conditions]>>

\* the policy stored by SetRetry(attempts, delay, conditions...) over the
\* policy held before: only attempts > 1 stores one
StoreRetry(old, attempts, delay, conditions) ==
  IF attempts > 1
    THEN <<[attempts |-> attempts, delay |-> delay, conditions |-> conditions]>>
    ELSE old

\* Client.SetRetry
ClientSetRetry(attempts, delay, conditions) ==
  /\ pc = "setup"
  /\ cRetry' = IF cErr # Nil THEN cRetry
               ELSE StoreRetry(cRetry, attempts, delay, conditions)
  /\ cRetryArg' = IF cErr # Nil THEN cRetryArg ELSE attempts
  /\ UNCHANGED <<cErr, requestInterceptors, responseInterceptors>>
  /\ UNCHANGED <<requestVars, enc, doVars, ctxVars, now, logVars>>
  /\ UNCHANGED <<rawClientVars, mergeVars, responseVars, lateVars, jarCookies, kvVars, concurrent, rawQuery>>

\* Client.UseRequestInterceptors
UseRequestInterceptors(interceptors) ==
  /\ pc = "setup"
  /\ Len(requestInterceptors) + Len(interceptors) <= MaxInterceptors
  /\ requestInterceptors' = IF cErr # Nil THEN requestInterceptors
                            ELSE requestInterceptors \o interceptors
  /\ UNCHANGED <<cErr, responseInterceptors, cRetry, cRetryArg>>
  /\ UNCHANGED <<requestVars, enc, doVars, ctxVars, now, logVars>>
  /\ UNCHANGED <<rawClientVars, mergeVars, responseVars, lateVars, jarCookies, kvVars, concurrent, rawQuery>>

\* Client.UseResponseInterceptors
UseResponseInterceptors(interceptors) ==
  /\ pc = "setup"
  /\ Len(responseInterceptors) + Len(interceptors) <= MaxInterceptors
  /\ responseInterceptors' = IF cErr # Nil THEN responseInterceptors
                             ELSE responseInterceptors \o interceptors
  /\ UNCHANGED <<cErr, requestInterceptors, cRetry, cRetryArg>>
  /\ UNCHANGED <<requestVars, enc, doVars, ctxVars, now, logVars>>
  /\ UNCHANGED <<rawClientVars, mergeVars, responseVars, lateVars, jarCookies, kvVars, concurrent, rawQuery>>

\* ---------------------------------------------------------- Request setters
\* a SetContext that drops the context held before when it is given nil
SetContextDropsOld(ctx) ==
  /\ pc = "setup"
  /\ IF reqErr # Nil
       THEN UNCHANGED <<reqErr, rErrCause, reqCtx, ctxVars>>
       ELSE /\ reqCtx' = [user |-> IF ctx = -1 THEN 0 ELSE ctx, mps |-> {}]
            /\ ctxErr' = Nil /\ ctxDoneAt' = 0
            /\ IF ctx = -1
                 THEN reqErr' = RequestError("SetContext") /\ rErrCause' = ErrNilContext
                 ELSE UNCHANGED <<reqErr, rErrCause>>
  /\ UNCHANGED <<rawRequest, timeout, rRetry, rRetryArg, errBackground, body>>
  /\ UNCHANGED <<clientVars, enc, doVars, now, logVars>>
  /\ UNCHANGED <<rawClientVars, mergeVars, responseVars, lateVars, jarCookies, kvVars, concurrent, rawQuery>>

\* Request.SetContext: ctx is -1 (nil), 0 (a context that is never done) or
\* the time at which the context's deadline expires.
SetContext(ctx) ==
  /\ pc = "setup"
  /\ IF reqErr # Nil
       THEN UNCHANGED <<reqErr, rErrCause, reqCtx, ctxVars>>
       ELSE IF ctx = -1
         THEN /\ reqErr' = RequestError("SetContext")
              /\ rErrCause' = ErrNilContext
              /\ UNCHANGED <<reqCtx, ctxVars>>
         ELSE /\ reqCtx' = [user |-> ctx, mps |-> {}]
              /\ ctxErr' = Nil /\ ctxDoneAt' = 0
              /\ UNCHANGED <<reqErr, rErrCause>>
  /\ UNCHANGED <<rawRequest, timeout, rRetry, rRetryArg, errBackground, body>>
  /\ UNCHANGED <<clientVars, enc, doVars, now, logVars>>
  /\ UNCHANGED <<rawClientVars, mergeVars, responseVars, lateVars, jarCookies, kvVars, concurrent, rawQuery>>

\* Request.SetTimeout
SetTimeout(t) ==
  /\ pc = "setup"
  /\ timeout' = IF reqErr # Nil THEN timeout ELSE t
  /\ UNCHANGED <<reqErr, rawRequest, rErrCause, rRetry, rRetryArg, errBackground, reqCtx, body>>
  /\ UNCHANGED <<clientVars, enc, doVars, ctxVars, now, logVars>>
  /\ UNCHANGED <<rawClientVars, mergeVars, responseVars, lateVars, jarCookies, kvVars, concurrent, rawQuery>>

\* Request.SetRetry
RequestSetRetry(attempts, delay, conditions) ==
  /\ pc = "setup"
  /\ rRetry' = IF reqErr # Nil THEN rRetry
               ELSE StoreRetry(rRetry, attempts, delay, conditions)
  /\ rRetryArg' = IF reqErr # Nil THEN rRetryArg ELSE attempts
  /\ UNCHANGED <<reqErr, rawRequest, rErrCause, timeout, errBackground, reqCtx, body>>
  /\ UNCHANGED <<clientVars, enc, doVars, ctxVars, now, logVars>>
  /\ UNCHANGED <<rawClientVars, mergeVars, responseVars, lateVars, jarCookies, kvVars, concurrent, rawQuery>>

\* Request.SetMultipart: a fresh error channel, a cancel context derived from
\* the request's current context, a pipe as body and the encoder goroutine.
\* files is what setFiles will meet: "ok", a file without Filename ("noname")
\* or a file whose body fails to read ("copyerr").
SetMultipart(files) ==
  /\ pc = "setup"
  /\ Len(enc) < MaxMultipart
  /\ IF reqErr # Nil
       THEN UNCHANGED <<errBackground, reqCtx, body, enc>>
       ELSE /\ errBackground' = <<>>
            /\ reqCtx' = [reqCtx EXCEPT !.mps = @ \cup {Len(enc) + 1}]
            /\ enc' = Append(enc, [files |-> files, pc |-> "start",
                                   failed |-> FALSE, cancelled |-> FALSE,
                                   wclosed |-> FALSE, rclosed |-> FALSE])
            /\ body' = SetBody(body, "pipe", Len(enc) + 1)
  /\ outbound' = IF reqErr # Nil THEN outbound
                 ELSE SetContentType(outbound, FormDataContentType(Len(enc) + 1))
  /\ UNCHANGED <<reqErr, rawRequest, rErrCause, timeout, rRetry, rRetryArg>>
  /\ UNCHANGED <<clientVars, doVars, ctxVars, now, logVars>>
  /\ UNCHANGED <<rawClientVars, clientSettings, requestSettings, responseVars>>
  /\ UNCHANGED <<lateVars, jarCookies, kvVars, concurrent, rawQuery>>

\* ------------------------------------------------- settings merged by Do
\* Headers.Set: the key is stored as it is spelled
HeadersSet(h, key, value) ==
  [k \in DOMAIN h \cup {key} |-> IF k = key THEN value ELSE h[k]]

\* what a setter of the Client's settings leaves alone
ClientSettingFrame ==
  /\ UNCHANGED <<requestInterceptors, responseInterceptors, cRetry, cRetryArg>>
  /\ UNCHANGED <<requestVars, enc, doVars, ctxVars, now, logVars>>
  /\ UNCHANGED <<rawClient, requestSettings, outbound, responseVars, rLate, jarCookies, kvVars, concurrent, rawQuery>>

\* a field of the Client's settings is assigned unless Err is set
ClientSetting(changed) ==
  /\ pc = "setup"
  /\ clientSettings' = IF cErr # Nil THEN clientSettings ELSE changed
  /\ UNCHANGED <<cErr, cErrCause>>
  /\ LateClientCall
  /\ ClientSettingFrame

\* Client.SetHost
ClientSetHost(host) == ClientSetting([clientSettings EXCEPT !.Host = host])

\* Client.SetHeaders with one key and one value
ClientSetHeaders(k, v) ==
  ClientSetting([clientSettings EXCEPT !.Headers = HeadersSet(@, k, v)])

\* Client.SetBasicAuth
ClientSetBasicAuth(username, password) ==
  ClientSetting([clientSettings EXCEPT !.auth = <<username, password>>])

\* Client.SetBearerToken
ClientSetBearerToken(token) ==
  ClientSetting([clientSettings EXCEPT !.bearerToken = token])

\* Client.SetContext: a nil context ("") raises the sticky ClientError
ClientSetContext(ctx) ==
  /\ pc = "setup"
  /\ IF cErr # Nil
       THEN UNCHANGED <<cErr, cErrCause, clientSettings>>
       ELSE IF ctx = ""
         THEN raiseError("SetContext", ErrNilContext) /\ UNCHANGED clientSettings
         ELSE /\ clientSettings' = [clientSettings EXCEPT !.ctx = ctx]
              /\ UNCHANGED <<cErr, cErrCause>>
  /\ LateClientCall
  /\ ClientSettingFrame

\* a field of the Request's settings is assigned unless Err is set
RequestSetting(changed) ==
  /\ pc = "setup"
  /\ requestSettings' = IF reqErr # Nil THEN requestSettings ELSE changed
  /\ LateRequestCall
  /\ UNCHANGED <<clientVars, requestVars, enc, doVars, ctxVars, now, logVars>>
  /\ UNCHANGED <<rawClientVars, clientSettings, outbound, responseVars, cLate, jarCookies, kvVars, concurrent, rawQuery>>

\* the request-level settings of a call: WithHost, WithHeaders with one
\* key and one value, WithBasicAuth, WithBearerToken, WithContext
WithHost(host) == RequestSetting([requestSettings EXCEPT !.Host = host])
WithHeaders(k, v) ==
  RequestSetting([requestSettings EXCEPT !.Headers = HeadersSet(@, k, v)])
WithBasicAuth(username, password) ==
  RequestSetting([requestSettings EXCEPT !.auth = <<username, password>>])
WithBearerToken(token) ==
  RequestSetting([requestSettings EXCEPT !.bearerToken = token])
WithContext(ctx) == RequestSetting([requestSettings EXCEPT !.ctx = ctx])

\* a setHost that lets the Client's host win
setHostClientFirst(cHost, reqHost, rawHost) ==
  LET host == IF cHost # "" THEN cHost ELSE reqHost
  IN IF host # "" THEN host ELSE rawHost

\* Client.setHost: the Host of RawRequest after the merge
setHost(cHost, reqHost, rawHost) ==
  LET host == IF reqHost # "" THEN reqHost ELSE cHost
  IN IF host # "" THEN host ELSE rawHost

\* the orders in which a range over a map with these keys can visit them
Orders(keys) ==
  {o \in [1..Cardinality(keys) -> keys] :
     \A a, b \in 1..Cardinality(keys) : o[a] = o[b] => a = b}

\* the map built by Client.setHeaders: the Client's entries, then the
\* Request's over them, key by key as spelled
MergedHeaders(cHeaders, reqHeaders) ==
  [k \in DOMAIN cHeaders \cup DOMAIN reqHeaders |->
     IF k \in DOMAIN reqHeaders THEN reqHeaders[k] ELSE cHeaders[k]]

\* a setHeaders that merges the Request's entries into the map of the Client
HeadersOfClientMerged(cHeaders, reqHeaders) == MergedHeaders(cHeaders, reqHeaders)

\* c.Headers after Client.setHeaders: the merge is built in a map of its own
\* (make(Headers, len(c.Headers))); c.Headers is only ranged over
HeadersOfClient(cHeaders, reqHeaders) == cHeaders

\* the range of Client.setHeaders over the merged map in one order, from the
\* k-th key on: each string value goes through Header.Set
RECURSIVE RangeHeaders(_, _, _, _)
RangeHeaders(order, headers, k, header) ==
  IF k > Len(order) THEN header
  ELSE RangeHeaders(order, headers, k + 1,
                    HeaderSet(header, order[k], <<headers[order[k]]>>))

\* Client.setHeaders
setHeaders(order, cHeaders, reqHeaders, header) ==
  RangeHeaders(order, MergedHeaders(cHeaders, reqHeaders), 1, header)

\* Client.setBasicAuth; auth is <<>> for nil
setBasicAuth(cAuth, reqAuth, header) ==
  LET auth == IF reqAuth # <<>> THEN reqAuth ELSE cAuth
  IN IF auth # <<>> THEN HeaderSet(header, "Authorization", BasicValue(auth))
     ELSE header

\* Client.setBearerToken
setBearerToken(cToken, reqToken, header) ==
  LET token == IF reqToken # "" THEN reqToken ELSE cToken
  IN IF token # "" THEN HeaderSet(header, "Authorization", BearerValue(token))
     ELSE header

\* Client.setContext; ctx is "" for nil
setContext(cCtx, reqCtx0, rawCtx) ==
  LET ctx == IF reqCtx0 # "" THEN reqCtx0 ELSE cCtx
  IN IF ctx # "" THEN ctx ELSE rawCtx

\* RawRequest after the merge of Do, with the range over the merged headers
\* in one order
Merged(c, order) ==
  LET r == requestSettings
  IN [Host |-> setHost(c.Host, r.Host, outbound.Host),
      Header |-> setBearerToken(c.bearerToken, r.bearerToken,
                   setBasicAuth(c.auth, r.auth,
                     setHeaders(order, c.Headers, r.Headers, outbound.Header))),
      ctx |-> setContext(c.ctx, r.ctx, outbound.ctx)]

\* ------------------------------------------- Request setters on RawRequest
\* what a Request setter leaves alone besides the Request
RequestSetterFrame ==
  /\ UNCHANGED <<clientVars, enc, doVars, ctxVars, now, logVars>>
  /\ UNCHANGED <<rawClientVars, clientSettings, requestSettings, responseVars, cLate, jarCookies, kvVars, concurrent, rawQuery>>

\* a SetHost that writes to RawRequest whatever Err is
RequestSetHostUnchecked(host) ==
  /\ pc = "setup"
  /\ outbound' = [outbound EXCEPT !.Host = host]
  /\ LateRequestCall
  /\ UNCHANGED requestVars
  /\ RequestSetterFrame

\* Request.SetHost
RequestSetHost(host) ==
  /\ pc = "setup"
  /\ outbound' = IF reqErr # Nil THEN outbound ELSE [outbound EXCEPT !.Host = host]
  /\ LateRequestCall
  /\ UNCHANGED requestVars
  /\ RequestSetterFrame

\* Request.SetHeaders with one key and one value: Header.Add
RequestSetHeaders(k, v) ==
  /\ pc = "setup"
  /\ outbound.Header[CanonicalHeaderKey(k)] = <<>>
  /\ outbound' = IF reqErr # Nil THEN outbound
                 ELSE [outbound EXCEPT !.Header = HeaderAdd(@, k, <<v>>)]
  /\ LateRequestCall
  /\ UNCHANGED requestVars
  /\ RequestSetterFrame

\* Request.SetBasicAuth
RequestSetBasicAuth(username, password) ==
  /\ pc = "setup"
  /\ outbound' = IF reqErr # Nil THEN outbound
                 ELSE [outbound EXCEPT !.Header =
                         HeaderSet(@, "Authorization", BasicValue(<<username, password>>))]
  /\ LateRequestCall
  /\ UNCHANGED requestVars
  /\ RequestSetterFrame

\* Request.SetBearerToken
RequestSetBearerToken(token) ==
  /\ pc = "setup"
  /\ outbound' = IF reqErr # Nil THEN outbound
                 ELSE [outbound EXCEPT !.Header =
                         HeaderSet(@, "Authorization", BearerValue(token))]
  /\ LateRequestCall
  /\ UNCHANGED requestVars
  /\ RequestSetterFrame

\* Request.SetJSON: a value that cannot be marshalled raises the sticky
\* RequestError; else the bytes become the body and Content-Type is set.
SetJSON(marshalOk) ==
  /\ pc = "setup"
  /\ IF reqErr # Nil
       THEN UNCHANGED <<reqErr, rErrCause, body, outbound>>
       ELSE IF ~marshalOk
         THEN /\ reqErr' = RequestError("SetJSON")
              /\ rErrCause' = MarshalError
              /\ UNCHANGED <<body, outbound>>
         ELSE /\ body' = SetBody(body, "json", 0)
              /\ outbound' = SetContentType(outbound, <<"application/json">>)
              /\ UNCHANGED <<reqErr, rErrCause>>
  /\ LateRequestCall
  /\ UNCHANGED <<rawRequest, timeout, rRetry, rRetryArg, errBackground, reqCtx>>
  /\ RequestSetterFrame

\* Another user of acquireBuffer (jsonMarshal for another SetJSON or for
\* toJSON, Response.JSON or Response.XML), on this or on another goroutine,
\* gets the buffer that jsonMarshal released and writes into it: the bytes
\* that jsonMarshal returned to SetJSON are buf.Bytes(), a slice of the
\* buffer's memory.
BufferReuse ==
  /\ pc \in {"setup", "attempt", "sleep"}
  /\ body.shared /\ body.data # <<>>
  /\ body' = [body EXCEPT !.data = [@ EXCEPT ![1] = 0], !.shared = FALSE]
  /\ UNCHANGED <<reqErr, rErrCause, rawRequest, timeout, rRetry, rRetryArg>>
  /\ UNCHANGED <<errBackground, reqCtx, outbound, rLate>>
  /\ RequestSetterFrame

\* Request.SetContent: SetBody of a buffer over the bytes
SetContent ==
  /\ pc = "setup"
  /\ body' = IF reqErr # Nil THEN body ELSE SetBody(body, "content", 0)
  /\ LateRequestCall
  /\ UNCHANGED <<reqErr, rErrCause, rawRequest, timeout, rRetry, rRetryArg>>
  /\ UNCHANGED <<errBackground, reqCtx, outbound>>
  /\ RequestSetterFrame

\* SetBody of a reader of the given kind, then SetContentType
BodyAndType(kind, contentType) ==
  /\ pc = "setup"
  /\ IF reqErr # Nil
       THEN UNCHANGED <<body, outbound>>
       ELSE /\ body' = SetBody(body, kind, 0)
            /\ outbound' = SetContentType(outbound, contentType)
  /\ LateRequestCall
  /\ UNCHANGED <<reqErr, rErrCause, rawRequest, timeout, rRetry, rRetryArg>>
  /\ UNCHANGED <<errBackground, reqCtx>>
  /\ RequestSetterFrame

\* Request.SetText
SetText == BodyAndType("text", <<"text/plain; charset=utf-8">>)

\* Request.SetForm
SetForm == BodyAndType("form", <<"application/x-www-form-urlencoded">>)

\* Request.Raw
RequestRaw == [raw |-> rawRequest, err |-> reqErr]

\* ------------------------------------------------- the multipart encoder
\* The transport is reading pipe k: the exchange in flight carries it as body.
Reading(k) ==
  /\ pc = "exchange" /\ body.kind = "pipe" /\ body.pipe = k
  /\ exCtxOk /\ exBodyOk /\ ~enc[k].rclosed

\* ctx.Err() after the cancel function of encoder k has been called
CancelCtx(err, k) ==
  IF err = Nil /\ k \in reqCtx.mps THEN Canceled ELSE err

\* setFiles meets a file without Filename and fails before it writes anything;
\* the goroutine sends the error on req.errBackground (which blocks while the
\* channel is full).
EncoderNoName(k) ==
  /\ enc[k].pc = "start" /\ enc[k].files = "noname"
  /\ Len(errBackground) < ErrBackgroundCap
  /\ errBackground' = Append(errBackground, RequestError("SetMultipart"))
  /\ enc' = [enc EXCEPT ![k].pc = "sent", ![k].failed = TRUE]
  /\ UNCHANGED <<reqErr, rawRequest, rErrCause, timeout, rRetry, rRetryArg, reqCtx, body>>
  /\ UNCHANGED <<clientVars, doVars, ctxVars, now, logVars>>
  /\ UNCHANGED <<rawClientVars, mergeVars, responseVars, lateVars, jarCookies, kvVars, concurrent, rawQuery>>

\* setFiles writes the parts to the pipe, which needs the transport to read.
\* With "ok" files all parts get written; with "copyerr" io.Copy fails on the
\* file body after the part header went out and the error is sent.
EncoderWrite(k) ==
  /\ enc[k].pc = "start" /\ enc[k].files # "noname"
  /\ Reading(k)
  /\ IF enc[k].files = "ok"
       THEN /\ enc' = [enc EXCEPT ![k].pc = "written"]
            /\ UNCHANGED errBackground
       ELSE /\ Len(errBackground) < ErrBackgroundCap
            /\ errBackground' = Append(errBackground, RequestError("SetMultipart"))
            /\ enc' = [enc EXCEPT ![k].pc = "sent", ![k].failed = TRUE]
  /\ UNCHANGED <<reqErr, rawRequest, rErrCause, timeout, rRetry, rRetryArg, reqCtx, body>>
  /\ UNCHANGED <<clientVars, doVars, ctxVars, now, logVars>>
  /\ UNCHANGED <<rawClientVars, mergeVars, responseVars, lateVars, jarCookies, kvVars, concurrent, rawQuery>>

\* The read side of the pipe was closed by the transport before the parts
\* were written: the write fails with io.ErrClosedPipe and the error is sent.
EncoderWriteClosed(k) ==
  /\ enc[k].pc = "start" /\ enc[k].files # "noname"
  /\ enc[k].rclosed
  /\ Len(errBackground) < ErrBackgroundCap
  /\ errBackground' = Append(errBackground, RequestError("SetMultipart"))
  /\ enc' = [enc EXCEPT ![k].pc = "sent", ![k].failed = TRUE]
  /\ UNCHANGED <<reqErr, rawRequest, rErrCause, timeout, rRetry, rRetryArg, reqCtx, body>>
  /\ UNCHANGED <<clientVars, doVars, ctxVars, now, logVars>>
  /\ UNCHANGED <<rawClientVars, mergeVars, responseVars, lateVars, jarCookies, kvVars, concurrent, rawQuery>>

\* cancel() after the error has been sent
EncoderCancel(k) ==
  /\ enc[k].pc = "sent"
  /\ enc' = [enc EXCEPT ![k].pc = "closing", ![k].cancelled = TRUE]
  /\ ctxErr' = CancelCtx(ctxErr, k)
  /\ ctxDoneAt' = IF ctxErr = Nil /\ ctxErr' # Nil THEN now ELSE ctxDoneAt
  /\ UNCHANGED <<requestVars, clientVars, doVars, now, logVars>>
  /\ UNCHANGED <<rawClientVars, mergeVars, responseVars, lateVars, jarCookies, kvVars, concurrent, rawQuery>>

\* The deferred mw.Close() writes the closing boundary (setForm and that write
\* need a reader, or fail at once on a closed pipe), then pw.Close().
EncoderClose(k) ==
  /\ enc[k].pc \in {"written", "closing"}
  /\ Reading(k) \/ enc[k].rclosed
  /\ enc' = [enc EXCEPT ![k].pc = "done", ![k].wclosed = TRUE]
  /\ UNCHANGED <<requestVars, clientVars, doVars, ctxVars, now, logVars>>
  /\ UNCHANGED <<rawClientVars, mergeVars, responseVars, lateVars, jarCookies, kvVars, concurrent, rawQuery>>

\* -------------------------------------------------------------- Client.Do
\* onBeforeRequest from interceptor k on: fails[k] tells whether the k-th
\* interceptor returns an error.  The result is the error and the calls made.
RECURSIVE RunRequestInterceptors(_, _, _, _)
RunRequestInterceptors(interceptors, fails, k, log) ==
  IF k > Len(interceptors) THEN [err |-> Nil, log |-> log]
  ELSE LET entry == [id |-> interceptors[k], failed |-> fails[k]]
       IN IF fails[k]
            THEN [err |-> RequestInterceptorError(interceptors[k]),
                  log |-> Append(log, entry)]
            ELSE RunRequestInterceptors(interceptors, fails, k + 1, Append(log, entry))

\* an onBeforeRequest that keeps calling interceptors after an error
OnBeforeRequestNoStop(interceptors, fails) ==
  LET failing == {k \in 1..Len(interceptors) : fails[k]}
      first == CHOOSE k \in failing : \A j \in failing : k <= j
  IN [err |-> IF failing = {} THEN Nil
              ELSE RequestInterceptorError(interceptors[first]),
      log |-> [k \in 1..Len(interceptors) |->
                 [id |-> interceptors[k], failed |-> fails[k]]]]

OnBeforeRequest(interceptors, fails) ==
  RunRequestInterceptors(interceptors, fails, 1, <<>>)

\* onAfterResponse from interceptor k on
RECURSIVE RunResponseInterceptors(_, _, _, _)
RunResponseInterceptors(interceptors, fails, k, log) ==
  IF k > Len(interceptors) THEN [err |-> Nil, log |-> log]
  ELSE LET entry == [id |-> interceptors[k], failed |-> fails[k]]
       IN IF fails[k]
            THEN [err |-> ResponseInterceptorError(interceptors[k]),
                  log |-> Append(log, entry)]
            ELSE RunResponseInterceptors(interceptors, fails, k + 1, Append(log, entry))

\* an onAfterResponse that goes on after an error and keeps the last one
OnAfterResponseNoStop(interceptors, fails) ==
  LET failing == {k \in 1..Len(interceptors) : fails[k]}
      last == CHOOSE k \in failing : \A j \in failing : j <= k
  IN [err |-> IF failing = {} THEN Nil
              ELSE ResponseInterceptorError(interceptors[last]),
      log |-> [k \in 1..Len(interceptors) |->
                 [id |-> interceptors[k], failed |-> fails[k]]]]

OnAfterResponse(interceptors, fails) ==
  RunResponseInterceptors(interceptors, fails, 1, <<>>)

\* the retry policy chosen by doWithRetry
EffectiveRetry(reqRetry, clientRetry) ==
  IF reqRetry # <<>> THEN reqRetry[1]
  ELSE IF clientRetry # <<>> THEN clientRetry[1]
  ELSE defaultRetry

\* The predicate loop of doWithRetry from condition k on: results[k] is what
\* the k-th predicate returns on the Response.
RECURSIVE EvalFrom(_, _, _, _, _)
EvalFrom(conditions, results, k, shouldRetry, log) ==
  IF k > Len(conditions) THEN [shouldRetry |-> shouldRetry, log |-> log]
  ELSE LET entry == [id |-> conditions[k], result |-> results[k]]
       IN IF results[k]
            THEN [shouldRetry |-> TRUE, log |-> Append(log, entry)]
            ELSE EvalFrom(conditions, results, k + 1, results[k], Append(log, entry))

\* shouldRetry := resp.Err != nil, then the predicate loop
EvalConditions(conditions, results, failed) ==
  EvalFrom(conditions, results, 1, failed, <<>>)

\* a deadline of the effective context has been reached at time t
DeadlineReached(t) ==
  \/ reqCtx.user > 0 /\ t >= reqCtx.user
  \/ toDeadline > 0 /\ t >= toDeadline

\* the sticky-error checks of Do over the Client's Err: the Request's Err
\* is looked at first
BuildCheckRequestFirst(clientErr, requestErr) ==
  IF requestErr # Nil THEN requestErr ELSE clientErr

\* the sticky-error checks at the head of Do: the error Do returns at once,
\* Nil if the dispatch goes on
BuildCheck(clientErr, requestErr) ==
  IF clientErr # Nil THEN clientErr ELSE requestErr

\* the fields of a Client that Do reads: those of c, or those of the
\* DefaultClient, which is as New left it
ClientOf(rcv) ==
  IF rcv = "c"
    THEN [Err |-> cErr, requestInterceptors |-> requestInterceptors,
          responseInterceptors |-> responseInterceptors, retry |-> cRetry,
          settings |-> clientSettings, RawClient |-> rawClient]
    ELSE [Err |-> Nil, requestInterceptors |-> <<>>,
          responseInterceptors |-> <<>>, retry |-> <<>>,
          settings |-> NoSettings,
          RawClient |-> [Transport |-> DefaultTransport, CheckRedirect |-> "nil",
                         Jar |-> "cookiejar", Timeout |-> "DefaultTimeout"]]

\* Client.Do of the Client rcv up to the first exchange: the two sticky-error
\* checks, the merge of the settings, onBeforeRequest and the prologue of
\* doWithRetry.
Do(rcv) ==
  /\ pc = "setup"
  /\ receiver' = rcv
  /\ IF BuildCheck(ClientOf(rcv).Err, reqErr) # Nil
       THEN /\ resp' = [raw |-> "nil", err |-> BuildCheck(ClientOf(rcv).Err, reqErr)]
            /\ pc' = "done"
            /\ UNCHANGED <<reqLog, retry, toDeadline>>
       ELSE \E fails \in [1..Len(ClientOf(rcv).requestInterceptors) -> BOOLEAN] :
            LET r == OnBeforeRequest(ClientOf(rcv).requestInterceptors, fails)
                policy == EffectiveRetry(rRetry, ClientOf(rcv).retry)
            IN /\ reqLog' = r.log
               /\ IF r.err # Nil
                    THEN /\ resp' = [raw |-> "nil", err |-> r.err]
                         /\ pc' = "done"
                         /\ UNCHANGED <<retry, toDeadline>>
                    ELSE /\ toDeadline' = IF timeout > 0 THEN now + timeout ELSE 0
                         /\ retry' = policy
                         /\ pc' = IF 0 < policy.attempts THEN "attempt" ELSE "after"
                         /\ UNCHANGED resp
  /\ UNCHANGED <<i, sleepStart, exCtxOk, exBodyOk>>
  /\ UNCHANGED <<clientVars, requestVars, enc, ctxVars, now>>
  /\ UNCHANGED <<respLog, condLog, exchanges, lastExch, hist>>
  /\ UNCHANGED <<rawClientVars, requestSettings, responseVars>>
  /\ UNCHANGED <<lateVars, jarCookies, kvVars, concurrent, rawQuery>>
  /\ clientSettings' =
       IF rcv = "c" /\ BuildCheck(ClientOf(rcv).Err, reqErr) = Nil
         THEN [clientSettings EXCEPT
                 !.Headers = HeadersOfClient(@, requestSettings.Headers)]
         ELSE clientSettings
  /\ IF BuildCheck(ClientOf(rcv).Err, reqErr) # Nil
       THEN UNCHANGED outbound
       ELSE \E order \in Orders(DOMAIN ClientOf(rcv).settings.Headers
                                 \cup DOMAIN requestSettings.Headers) :
              outbound' = Merged(ClientOf(rcv).settings, order)

\* c.Do(req)
DoStart == Do("c")

\* c.Send(method, url, opts...): the Request is the one NewRequest and the
\* options applied before built
ClientSend(method) == Do("c")

\* the verb methods of c
ClientGet == ClientSend("GET")
ClientHead == ClientSend("HEAD")
ClientPost == ClientSend("POST")
ClientPut == Do("DefaultClient")
ClientPatch == ClientSend("PATCH")
ClientDelete == ClientSend("DELETE")

\* The transport can read the body of RawRequest: the read side of a pipe is
\* open; a reader over bytes has not been read to its end by an earlier
\* exchange (Client.do sends the same RawRequest again, and nothing rewinds
\* its Body: with ContentLength set and no bytes left the transport fails).
BodyReadable ==
  /\ body.kind = "pipe" => ~enc[body.pipe].rclosed
  /\ body.kind \notin {"none", "pipe"} => ~body.read

\* the bytes of a complete multipart body: they begin with the boundary
MultipartPayload == <<45, 45>>

\* whether the exchange that returns rawOut read the bytes of the body: it
\* did when a response came, it did not when it could not or when the
\* context was done at the start, and either when the transport failed
ReadChoices(rawOut) ==
  IF body.kind \in {"none", "pipe"} \/ ~exBodyOk \/ ~exCtxOk THEN {FALSE}
  ELSE IF rawOut.raw # "nil" THEN {TRUE}
  ELSE BOOLEAN

\* what the exchange that returns rawOut transmitted as body
Transmitted(rawOut, readBody) ==
  [response |-> rawOut.raw # "nil",
   data |-> IF body.kind = "pipe"
              THEN (IF rawOut.raw # "nil" THEN MultipartPayload ELSE <<>>)
              ELSE IF readBody THEN body.data ELSE <<>>]

\* c.do(req.RawRequest) is called: the exchange begins.
ExchangeBegin ==
  /\ pc = "attempt"
  /\ pc' = "exchange"
  /\ exchanges' = exchanges + 1
  /\ exCtxOk' = (ctxErr = Nil)
  /\ exBodyOk' = BodyReadable
  /\ hist' = [hist EXCEPT !.lateExchange = @ \/ ctxErr # Nil]
  /\ UNCHANGED <<i, retry, toDeadline, resp, sleepStart, receiver>>
  /\ UNCHANGED <<clientVars, requestVars, enc, ctxVars, now>>
  /\ UNCHANGED <<reqLog, respLog, condLog, lastExch>>
  /\ UNCHANGED <<rawClientVars, mergeVars, responseVars, lateVars, jarCookies, kvVars, concurrent, rawQuery>>

\* What c.do can return.  With a context that was done when the exchange
\* began, http.Client.Do returns the context's error at once.  Otherwise: a
\* response needs a body that was transmitted completely (for a pipe: the
\* encoder closed the write side); a transport error is always possible; a
\* context that became done meanwhile makes the transport return its error.
ExchangeResults ==
  IF ~exCtxOk THEN {[raw |-> "nil", err |-> URLError(ctxErr[2])]}
  ELSE
    {[raw |-> st, err |-> Nil] : st \in
       IF exBodyOk /\ (body.kind = "pipe" => enc[body.pipe].wclosed)
         THEN {"ok", "bad"} ELSE {}}
    \cup {[raw |-> "nil", err |-> URLError("net")]}
    \cup (IF ctxErr # Nil THEN {[raw |-> "nil", err |-> URLError(ctxErr[2])]} ELSE {})

\* the upper and the lower case of an ASCII byte
ToUpper(c) == IF 97 <= c /\ c <= 122 THEN c - 32 ELSE c
ToLower(c) == IF 65 <= c /\ c <= 90 THEN c + 32 ELSE c

\* a comparison of the bytes as they are
EqualBytes(a, b) == a = b

\* strings.EqualFold for ASCII strings
EqualFold(a, b) ==
  Len(a) = Len(b) /\ \A n \in 1..Len(a) : ToLower(a[n]) = ToLower(b[n])

\* the response as http.Client.Do returns it: Body is what the transport
\* hands over
Received(st) ==
  [st EXCEPT !.reader = st.sent, !.wraps = 0, !.underClosed = FALSE]

\* Client.do after RawClient.Do returned out with the response st: the
\* result it returns and the response as it leaves it.  gzip.NewReader reads
\* the gzip header; whether it succeeds or not the body it was given is
\* closed and Body is assigned what it returned (a nil *gzip.Reader with the
\* error).
do(out, st) ==
  IF out.err # Nil \/ out.raw = "nil" THEN [out |-> out, stream |-> st]
  ELSE LET r == Received(st)
       IN IF EqualFold(r.encoding, gzip) /\ r.length # 0 /\ r.reader # "gzip.Reader"
            THEN [out |-> [raw |-> out.raw, err |-> IF r.gzOk THEN Nil ELSE GzipError],
                  stream |-> [r EXCEPT !.underClosed = TRUE,
                                       !.reader = IF r.gzOk THEN "gzip.Reader"
                                                  ELSE "nil gzip.Reader",
                                       !.wraps = IF r.gzOk THEN @ + 1 ELSE @]]
            ELSE [out |-> out, stream |-> r]

\* the number of response bodies that the exchange returning rawOut leaves
\* open: doWithRetry closes no body, Client.do the one it put a decompressor
\* around
Unclosed(rawOut) ==
  IF rawOut.raw # "nil" /\ ~do(rawOut, stream).stream.underClosed THEN 1 ELSE 0

\* a check after the exchange that does not look at errBackground
CheckContextNoBackground(err, background) ==
  [stop |-> err # Nil, err |-> err, background |-> background]

\* The check that follows the exchange: err is ctx.Err(), background the
\* channel req.errBackground.  stop tells whether doWithRetry returns, err is
\* the error it stores in resp.Err, background the channel afterwards.
CheckContext(err, background) ==
  IF err = Nil THEN [stop |-> FALSE, err |-> Nil, background |-> background]
  ELSE IF background # <<>>
    THEN [stop |-> TRUE, err |-> Head(background), background |-> Tail(background)]
    ELSE [stop |-> TRUE, err |-> err, background |-> background]

\* a loop that goes on until the attempts are used up
ShouldStopLastOnly(shouldRetry, idx, attempts) ==
  idx = attempts - 1

\* !shouldRetry || i == retry.attempts-1
ShouldStop(shouldRetry, idx, attempts) ==
  ~shouldRetry \/ idx = attempts - 1

\* Jar.SetCookies as http.Client calls it with the cookies of a response: a
\* cookie replaces the one of its name that the jar holds, or is added
RECURSIVE SetCookies(_, _)
SetCookies(held, cookies) ==
  IF cookies = <<>> THEN held
  ELSE LET c == Head(cookies)
           at == {k \in 1..Len(held) : held[k][1] = c[1]}
       IN SetCookies(IF at = {} THEN Append(held, c)
                      ELSE [k \in 1..Len(held) |-> IF k \in at THEN c ELSE held[k]],
                     Tail(cookies))

\* The exchange returns and doWithRetry runs up to its next suspension point:
\* the ctx.Err() check, the predicates, the decision to stop or to sleep.
ExchangeReturn ==
  /\ pc = "exchange"
  /\ \E rawOut \in ExchangeResults : \E readBody \in ReadChoices(rawOut) :
       LET chk == CheckContext(ctxErr, errBackground)
           out == do(rawOut, stream).out
       IN /\ lastExch' = out
          /\ body' = [body EXCEPT !.read = @ \/ readBody]
          /\ stream' = do(rawOut, stream).stream
          /\ jarCookies' = IF out.raw = "ok" /\ receiver = "c" /\ rawClient.Jar # "nil"
                             THEN SetCookies(jarCookies, stream.cookies)
                             ELSE jarCookies
          /\ enc' = IF body.kind = "pipe"
                      THEN [enc EXCEPT ![body.pipe].rclosed = TRUE] ELSE enc
          /\ errBackground' = chk.background
          /\ IF chk.stop
               THEN /\ resp' = [raw |-> out.raw, err |-> chk.err]
                    /\ condLog' = <<>>
                    /\ pc' = "after"
                    /\ hist' = [hist EXCEPT !.seen = "check",
                                  !.ctxAtCheck = ctxErr,
                                  !.pending = IF errBackground # <<>>
                                                THEN Head(errBackground) ELSE Nil,
                                  !.loopResp = resp',
                                  !.bodies = Append(@, Transmitted(rawOut, readBody)),
                              !.unclosed = @ + Unclosed(rawOut)]
                    /\ UNCHANGED sleepStart
               ELSE \E results \in [1..Len(retry.conditions) -> BOOLEAN] :
                      LET ev == EvalConditions(retry.conditions, results, out.err # Nil)
                          stop == ShouldStop(ev.shouldRetry, i, retry.attempts)
                      IN /\ resp' = out
                         /\ condLog' = ev.log
                         /\ pc' = IF stop THEN "after" ELSE "sleep"
                         /\ sleepStart' = IF stop THEN sleepStart ELSE now
                         /\ hist' = [hist EXCEPT
                              !.stopAt = IF @ = 0 /\ ~ev.shouldRetry THEN i + 1 ELSE @,
                              !.allTrue = @ /\ \A k \in 1..Len(results) : results[k],
                              !.nEval = @ + 1,
                              !.shouldRetry = ev.shouldRetry,
                              !.ctxAtCheck = ctxErr,
                              !.pending = IF errBackground # <<>>
                                            THEN Head(errBackground) ELSE Nil,
                              !.loopResp = IF stop THEN out ELSE @,
                              !.bodies = Append(@, Transmitted(rawOut, readBody)),
                              !.unclosed = @ + Unclosed(rawOut)]
  /\ UNCHANGED <<i, retry, toDeadline, receiver, exCtxOk, exBodyOk>>
  /\ UNCHANGED <<reqErr, rawRequest, rErrCause, timeout, rRetry, rRetryArg, reqCtx>>
  /\ UNCHANGED <<clientVars, ctxVars, now, reqLog, respLog, exchanges>>
  /\ UNCHANGED <<respBody, pooled, ret, reads, closes, nCalls, uncached>>
  /\ UNCHANGED <<rawClientVars, mergeVars, lateVars, kvVars, concurrent, rawQuery>>

\* The select of doWithRetry.  The timer fires at sleepStart + retry.delay and
\* the context is done from ctxDoneAt on; the goroutine takes the case that
\* became ready first, and either case when both became ready at one time.
TimerAt == sleepStart + retry.delay

\* a wait for the timer alone, as time.Sleep(retry.delay) would be
TimerCaseOnly == now >= TimerAt

\* case <-time.After(retry.delay) can be taken
TimerCase ==
  /\ now >= TimerAt
  /\ ctxErr = Nil \/ ctxDoneAt >= TimerAt

\* case <-ctx.Done() can be taken
DoneCase == ctxErr # Nil /\ ctxDoneAt <= TimerAt

\* select: <-time.After(retry.delay) is taken; the loop goes round.
SleepTimer ==
  /\ pc = "sleep"
  /\ TimerCase
  /\ i' = i + 1
  /\ pc' = IF i + 1 < retry.attempts THEN "attempt" ELSE "after"
  /\ UNCHANGED <<retry, toDeadline, resp, sleepStart, receiver, exCtxOk, exBodyOk>>
  /\ UNCHANGED <<clientVars, requestVars, enc, ctxVars, now, logVars>>
  /\ UNCHANGED <<rawClientVars, mergeVars, responseVars, lateVars, jarCookies, kvVars, concurrent, rawQuery>>

\* a <-ctx.Done() branch that returns without storing the error
SelectErrKept(err, respErr) == respErr

\* the error the <-ctx.Done() branch leaves in resp.Err, over the one it held:
\* resp.Err = ctx.Err()
SelectErr(err, respErr) == err

\* select: <-ctx.Done() is taken; doWithRetry returns the context's error.
SleepCtxDone ==
  /\ pc = "sleep"
  /\ DoneCase
  /\ resp' = [resp EXCEPT !.err = SelectErr(ctxErr, resp.err)]
  /\ pc' = "after"
  /\ hist' = [hist EXCEPT !.seen = "select",
                !.pending = IF errBackground # <<>> THEN Head(errBackground) ELSE Nil,
                !.loopResp = resp']
  /\ UNCHANGED <<i, retry, toDeadline, sleepStart, receiver, exCtxOk, exBodyOk>>
  /\ UNCHANGED <<clientVars, requestVars, enc, ctxVars, now>>
  /\ UNCHANGED <<reqLog, respLog, condLog, exchanges, lastExch>>
  /\ UNCHANGED <<rawClientVars, mergeVars, responseVars, lateVars, jarCookies, kvVars, concurrent, rawQuery>>

\* doWithRetry has returned, and its deferred cancel() of the context that
\* req.timeout > 0 made has run: onAfterResponse, then Do returns resp.
DoReturn ==
  /\ pc = "after"
  /\ stream' = [stream EXCEPT !.canceled = toDeadline # 0]
  /\ \E fails \in [1..Len(ClientOf(receiver).responseInterceptors) -> BOOLEAN] :
       LET r == OnAfterResponse(ClientOf(receiver).responseInterceptors, fails)
       IN /\ respLog' = r.log
          /\ resp' = IF r.err # Nil THEN [resp EXCEPT !.err = r.err] ELSE resp
  /\ pc' = "done"
  /\ UNCHANGED <<i, retry, toDeadline, sleepStart, receiver, exCtxOk, exBodyOk>>
  /\ UNCHANGED <<clientVars, requestVars, enc, ctxVars, now>>
  /\ UNCHANGED <<reqLog, condLog, exchanges, lastExch, hist>>
  /\ UNCHANGED <<respBody, pooled, ret, reads, closes, nCalls, uncached>>
  /\ UNCHANGED <<rawClientVars, mergeVars, lateVars, jarCookies, kvVars, concurrent, rawQuery>>

\* The clock advances while the dispatch waits for a deadline or a timer.
Tick ==
  /\ pc \in {"attempt", "exchange", "sleep"}
  /\ \/ ctxErr = Nil /\ (reqCtx.user > now \/ toDeadline > now)
     \/ pc = "sleep" /\ now < TimerAt
  /\ now' = now + 1
  /\ ctxErr' = IF ctxErr = Nil /\ DeadlineReached(now + 1)
                 THEN DeadlineExceeded ELSE ctxErr
  /\ ctxDoneAt' = IF ctxErr = Nil /\ ctxErr' # Nil THEN now + 1 ELSE ctxDoneAt
  /\ UNCHANGED <<clientVars, requestVars, enc, doVars, logVars>>
  /\ UNCHANGED <<rawClientVars, mergeVars, responseVars, lateVars, jarCookies, kvVars, concurrent, rawQuery>>

\* ------------------------------------------------- concurrent dispatches
\* Another goroutine calls c.Do with a Request of its own while the dispatch
\* of the modelled Request runs.  Of such a call the model keeps what it
\* reads of the Client: c.Err, the request interceptors, the settings, the
\* retry policy and RawClient as it starts, the response interceptors as it
\* returns.  It writes no field of the Client.
ConcurrentFrame ==
  /\ UNCHANGED <<clientVars, requestVars, enc, doVars, ctxVars, now, logVars>>
  /\ UNCHANGED <<rawClientVars, mergeVars, responseVars, lateVars, jarCookies, kvVars>>
  /\ UNCHANGED rawQuery

\* c.Do(other) is called
ConcurrentDo ==
  /\ pc # "setup"
  /\ Len(concurrent) < MaxDispatches
  /\ concurrent' = Append(concurrent,
                          [pc |-> IF cErr # Nil THEN "done" ELSE "running",
                           start |-> ClientOf("c"), end |-> ClientOf("c")])
  /\ ConcurrentFrame

\* c.Do(other) runs onAfterResponse and returns
ConcurrentReturn(k) ==
  /\ k \in 1..Len(concurrent)
  /\ concurrent[k].pc = "running"
  /\ concurrent' = [concurrent EXCEPT ![k] = [pc |-> "done", start |-> @.start,
                                              end |-> ClientOf("c")]]
  /\ ConcurrentFrame

\* ------------------------------------------------------ Values and Headers
\* Strings that are compared or canonicalised are sequences of bytes:
\* 45 is '-', 65..90 are 'A'..'Z', 97..122 are 'a'..'z'.
\* a < b as sort.Strings compares strings
RECURSIVE Less(_, _)
Less(a, b) ==
  IF b = <<>> THEN FALSE
  ELSE IF a = <<>> THEN TRUE
  ELSE IF Head(a) # Head(b) THEN Head(a) < Head(b)
  ELSE Less(Tail(a), Tail(b))

\* sort.Strings of the keys of a map: the one ascending order of its keys
SortStrings(keys) ==
  CHOOSE o \in Orders(keys) : \A a, b \in 1..Len(o) : a < b => Less(o[a], o[b])


\* http.CanonicalHeaderKey on bytes: the first letter and each letter after
\* a '-' in upper case, the others in lower case
CanonicalBytes(k) ==
  [n \in 1..Len(k) |-> IF n = 1 \/ k[n - 1] = 45 THEN ToUpper(k[n]) ELSE ToLower(k[n])]

\* A value of a map is [type, elems]: the Go type and the elements, each
\* element [kind, s, n] a string s, an int n or something else.
StringElem(x) == [kind |-> "string", s |-> x, n |-> 0]
IntElem(x) == [kind |-> "int", s |-> "", n |-> x]
OtherElem == [kind |-> "bool", s |-> "", n |-> 0]

\* convertStringIntArray: the strings and the ints of an []interface{}
RECURSIVE convertStringIntArray(_)
convertStringIntArray(v) ==
  IF v = <<>> THEN <<>>
  ELSE (IF Head(v).kind = "string" THEN <<Head(v).s>>
        ELSE IF Head(v).kind = "int" THEN <<ToString(Head(v).n)>>
        ELSE <<>>) \o convertStringIntArray(Tail(v))

\* filter: the strings a value projects to, none for an unsupported type
filter(v) ==
  CASE v.type = "string" -> <<v.elems[1].s>>
    [] v.type = "int" -> <<ToString(v.elems[1].n)>>
    [] v.type = "[]string" -> [n \in 1..Len(v.elems) |-> v.elems[n].s]
    [] v.type = "[]int" -> [n \in 1..Len(v.elems) |-> ToString(v.elems[n].n)]
    [] v.type = "[]interface{}" -> convertStringIntArray(v.elems)
    [] OTHER -> <<>>

\* KV.Get for Values and Headers: a missing key is a nil value
Get(m, k) == IF k \in DOMAIN m THEN filter(m[k]) ELSE <<>>

\* writeValues: one pair key=value per value
writeValues(k, v) == [n \in 1..Len(v) |-> <<k, v[n]>>]

\* writeHeaders: one line Canonical-Key: value per value
writeHeaders(k, v) == [n \in 1..Len(v) |-> <<CanonicalBytes(k), v[n]>>]

\* write: the keys sorted, then the callback (writeValues or writeHeaders,
\* by name) on each key, from the n-th on
RECURSIVE writeFrom(_, _, _, _)
writeFrom(keys, m, callback, n) ==
  IF n > Len(keys) THEN <<>>
  ELSE (IF callback = "writeValues" THEN writeValues(keys[n], Get(m, keys[n]))
        ELSE writeHeaders(keys[n], Get(m, keys[n])))
       \o writeFrom(keys, m, callback, n + 1)

write(m, callback) == writeFrom(SortStrings(DOMAIN m), m, callback, 1)

\* what the actions on a map leave alone
KVFrame ==
  /\ UNCHANGED <<clientVars, requestVars, enc, doVars, ctxVars, now, logVars>>
  /\ UNCHANGED <<rawClientVars, mergeVars, responseVars, lateVars, jarCookies>>
  /\ UNCHANGED <<concurrent, rawQuery>>

\* Values.Set and Headers.Set; the string an earlier Encode or String returned
\* is not kept past the next change of the map
KVSet(key, value) ==
  /\ kv' = [k \in DOMAIN kv \cup {key} |-> IF k = key THEN value ELSE kv[k]]
  /\ kvOut' = [op |-> "none", of |-> <<>>, pairs |-> <<>>]
  /\ KVFrame

\* Values.Del and Headers.Del
KVDel(key) ==
  /\ key \in DOMAIN kv
  /\ kv' = [k \in DOMAIN kv \ {key} |-> kv[k]]
  /\ kvOut' = [op |-> "none", of |-> <<>>, pairs |-> <<>>]
  /\ KVFrame

\* Values.Encode
ValuesEncode ==
  /\ kvOut' = [op |-> "Encode", of |-> kv, pairs |-> write(kv, "writeValues")]
  /\ UNCHANGED kv
  /\ KVFrame

\* Headers.String
HeadersString ==
  /\ kvOut' = [op |-> "String", of |-> kv, pairs |-> write(kv, "writeHeaders")]
  /\ UNCHANGED kv
  /\ KVFrame

\* ------------------------------------------- Request.SetQuery, SetHeaders
\* A query is a map from keys to the values of the key in order; RawQuery is
\* its encoding, a sequence of pairs [k, v, ok], ok false for a pair that
\* cannot be unescaped.

\* url.Values of the pairs from the n-th on added to q: URL.Query() discards
\* a malformed pair
RECURSIVE ParseFrom(_, _, _)
ParseFrom(raw, n, q) ==
  IF n > Len(raw) THEN q
  ELSE ParseFrom(raw, n + 1,
         IF ~raw[n].ok THEN q
         ELSE [k \in DOMAIN q \cup {raw[n].k} |->
                 IF k = raw[n].k
                   THEN (IF k \in DOMAIN q THEN q[k] ELSE <<>>) \o <<raw[n].v>>
                   ELSE q[k]])

\* RawRequest.URL.Query()
Query(raw) == ParseFrom(raw, 1, <<>>)

\* url.Values.Encode: the keys sorted, the values of a key in their order
RECURSIVE EncodeFrom(_, _, _)
EncodeFrom(keys, q, n) ==
  IF n > Len(keys) THEN <<>>
  ELSE [j \in 1..Len(q[keys[n]]) |-> [k |-> keys[n], v |-> q[keys[n]][j], ok |-> TRUE]]
       \o EncodeFrom(keys, q, n + 1)

Encode(q) == EncodeFrom(SortStrings(DOMAIN q), q, 1)

\* an Add that replaces what the key holds
AddAllReplacing(held, values) == values

\* Add of each of the values to what a key holds, in order
AddAll(held, values) == held \o values

\* the loop of SetQuery over params.Keys() in one order, from the n-th key on
RECURSIVE QueryAddFrom(_, _, _, _)
QueryAddFrom(order, params, n, q) ==
  IF n > Len(order) THEN q
  ELSE LET k == order[n]
           held == IF k \in DOMAIN q THEN q[k] ELSE <<>>
           all == AddAll(held, Get(params, k))
       IN QueryAddFrom(order, params, n + 1,
            IF Get(params, k) = <<>> THEN q
            ELSE [j \in DOMAIN q \cup {k} |-> IF j = k THEN all ELSE q[j]])

\* the values a key holds in a query, none for a key it does not have
Held(q, k) == IF k \in DOMAIN q THEN q[k] ELSE <<>>

\* Request.SetQuery
SetQuery(params) ==
  /\ pc = "setup"
  /\ \A k \in DOMAIN params :
       Len(Held(Query(rawQuery), k)) + Len(Get(params, k)) <= MaxHeld
  /\ \E order \in Orders(DOMAIN params) :
       rawQuery' = IF reqErr # Nil THEN rawQuery
                   ELSE Encode(QueryAddFrom(order, params, 1, Query(rawQuery)))
  /\ LateRequestCall
  /\ UNCHANGED <<requestVars, outbound>>
  /\ UNCHANGED <<clientVars, enc, doVars, ctxVars, now, logVars>>
  /\ UNCHANGED <<rawClientVars, clientSettings, requestSettings, responseVars>>
  /\ UNCHANGED <<cLate, jarCookies, kvVars, concurrent>>

\* the loop of SetHeaders over headers.Keys() in one order, from the n-th key
\* on: Header.Add of each value under the canonical name of the key
RECURSIVE HeaderAddFrom(_, _, _, _)
HeaderAddFrom(order, headers, n, header) ==
  IF n > Len(order) THEN header
  ELSE LET name == CanonicalHeaderKey(order[n])
           values == [j \in 1..Len(Get(headers, order[n])) |->
                        <<Get(headers, order[n])[j]>>]
       IN HeaderAddFrom(order, headers, n + 1,
                        [header EXCEPT ![name] = AddAll(@, values)])

\* the values that headers adds under the header name, whatever the order
Added(headers, name) ==
  LET keys == {k \in DOMAIN headers : CanonicalHeaderKey(k) = name}
      RECURSIVE sum(_)
      sum(ks) == IF ks = {} THEN 0
                 ELSE LET k == CHOOSE x \in ks : TRUE
                      IN Len(Get(headers, k)) + sum(ks \ {k})
  IN sum(keys)

\* Request.SetHeaders with a KV
RequestSetHeadersKV(headers) ==
  /\ pc = "setup"
  /\ \A name \in HeaderNames :
       Len(outbound.Header[name]) + Added(headers, name) <= MaxHeld
  /\ \E order \in Orders(DOMAIN headers) :
       outbound' = IF reqErr # Nil THEN outbound
                   ELSE [outbound EXCEPT
                           !.Header = HeaderAddFrom(order, headers, 1, @)]
  /\ LateRequestCall
  /\ UNCHANGED requestVars
  /\ RequestSetterFrame

\* ---------------------------------------------------------- the cookie jar
\* the first cookie of a name among cookies, as <<cookie>>; <<>> for none
RECURSIVE FirstNamed(_, _)
FirstNamed(cookies, name) ==
  IF cookies = <<>> THEN <<>>
  ELSE IF Head(cookies)[1] = name THEN <<Head(cookies)>>
  ELSE FirstNamed(Tail(cookies), name)

\* a method of the Client that returns a value is called
ClientCalled == pc \in {"setup", "done"} /\ nCalls < MaxCalls /\ nCalls' = nCalls + 1

\* what stays as it is when FilterCookies or FilterCookie is called
FilterFrame ==
  /\ UNCHANGED <<clientVars, requestVars, enc, doVars, ctxVars, now, logVars>>
  /\ UNCHANGED <<rawClientVars, mergeVars, lateVars, jarCookies, kvVars, concurrent, rawQuery>>
  /\ UNCHANGED <<respBody, stream, pooled, reads, closes, uncached>>

\* a FilterCookies that parses the URL before it looks for the jar
FilterCookiesParseFirst(urlOk) ==
  IF ~urlOk THEN [val |-> <<>>, err |-> URLParseError]
  ELSE IF rawClient.Jar = "nil" THEN [val |-> <<>>, err |-> ErrNilCookieJar]
  ELSE IF Len(jarCookies) = 0 THEN [val |-> <<>>, err |-> ErrJarCookiesNotPresent]
  ELSE [val |-> jarCookies, err |-> Nil]

\* what Client.FilterCookies returns; urlOk tells whether the URL parses
FilterCookiesResult(urlOk) ==
  IF rawClient.Jar = "nil" THEN [val |-> <<>>, err |-> ErrNilCookieJar]
  ELSE IF ~urlOk THEN [val |-> <<>>, err |-> URLParseError]
  ELSE IF Len(jarCookies) = 0 THEN [val |-> <<>>, err |-> ErrJarCookiesNotPresent]
  ELSE [val |-> jarCookies, err |-> Nil]

\* Client.FilterCookies
FilterCookies(urlOk) ==
  /\ ClientCalled
  /\ ret' = [op |-> "FilterCookies", val |-> FilterCookiesResult(urlOk).val,
             err |-> FilterCookiesResult(urlOk).err]
  /\ FilterFrame

\* Client.FilterCookie
FilterCookie(urlOk, name) ==
  /\ ClientCalled
  /\ ret' = LET r == FilterCookiesResult(urlOk)
                found == FirstNamed(r.val, name)
            IN IF r.err # Nil
                 THEN [op |-> "FilterCookie", val |-> <<>>, err |-> r.err]
                 ELSE IF found = <<>>
                   THEN [op |-> "FilterCookie", val |-> <<>>,
                         err |-> ErrJarNamedCookieNotPresent]
                   ELSE [op |-> "FilterCookie", val |-> found, err |-> Nil]
  /\ FilterFrame

\* ------------------------------------------------------------ the Response
\* The bodies a server may answer with: the bytes 1..n, a known or unknown
\* ContentLength, and how a JSON or XML decoder fares on them.  A decoder has
\* to see at least one byte, and fails on an empty body.
ServerBodies ==
  UNION {
    {ResponseBody([k \in 1..n |-> k], length, vend, valid) :
       length \in {n, -1},
       vend \in (IF n = 0 THEN {0} ELSE 1..n),
       valid \in (IF n = 0 THEN {FALSE} ELSE BOOLEAN)} :
    n \in 0..MaxBody}

\* RawResponse.StatusCode: that of the server's answer, 500 for a bad one
StatusCode(raw) == IF raw = "ok" THEN stream.status ELSE 500

\* The bytes of the body that the transport holds when the exchange returns:
\* it reads the header through a buffer, and what of the body came with it
\* needs no further read on the connection.
ReadBufferSize == 1

\* How far RawResponse.Body can be read.  Once the context of the request is
\* cancelled the transport closes the connection: what it had buffered is
\* still read, the read after that fails with the context's error.
Available(st) ==
  IF st.canceled /\ ReadBufferSize < Len(st.data) THEN ReadBufferSize
  ELSE Len(st.data)

\* ioutil.ReadAll / io.Copy on RawResponse.Body: the bytes not read yet, or
\* an error once the body has been closed or the connection is gone
ReadAll(st) ==
  IF st.closed
    THEN [bytes |-> <<>>, err |-> ReadOnClosedBody, stream |-> st]
    ELSE IF Available(st) < Len(st.data)
      THEN [bytes |-> SubSeq(st.data, st.pos + 1, Available(st)), err |-> Canceled,
            stream |-> [st EXCEPT !.pos = IF @ < Available(st) THEN Available(st) ELSE @]]
      ELSE [bytes |-> SubSeq(st.data, st.pos + 1, Len(st.data)), err |-> Nil,
            stream |-> [st EXCEPT !.pos = Len(st.data)]]

\* RawResponse.Body.Close()
Close(st) == [st EXCEPT !.closed = TRUE]

\* string(b)
String(b) == IF b = <<>> THEN <<>> ELSE b[1]

\* what stays as it is when a method is called on the Response
ResponseFrame ==
  /\ UNCHANGED <<pc, i, retry, toDeadline, sleepStart, receiver, exCtxOk, exBodyOk>>
  /\ UNCHANGED <<clientVars, requestVars, enc, ctxVars, now, logVars>>
  /\ UNCHANGED <<rawClientVars, mergeVars, lateVars, jarCookies, kvVars, concurrent, rawQuery>>

\* a method is called on the Response that Do returned
Called == pc = "done" /\ nCalls < MaxCalls /\ nCalls' = nCalls + 1

\* the call reads RawResponse.Body to its end and closes it
Consume(cache) ==
  LET r == ReadAll(stream)
  IN /\ stream' = Close(r.stream)
     /\ reads' = reads + 1 /\ closes' = closes + 1
     /\ respBody' = IF cache THEN <<r.bytes>> ELSE respBody

\* Response.Content, and Response.Text without an encoding: string(b) of
\* what Content returns
ContentAs(op) ==
  /\ Called
  /\ IF resp.err # Nil \/ respBody # <<>>
       THEN /\ ret' = [op |-> op,
                       val |-> IF op = "Text" THEN String(respBody) ELSE respBody,
                       err |-> resp.err]
            /\ UNCHANGED <<respBody, stream, reads, closes>>
       ELSE /\ Consume(TRUE)
            /\ ret' = [op |-> op,
                       val |-> IF op = "Text" THEN ReadAll(stream).bytes
                               ELSE <<ReadAll(stream).bytes>>,
                       err |-> ReadAll(stream).err]
  /\ UNCHANGED <<resp, pooled, uncached>>
  /\ ResponseFrame

Content == ContentAs("Content")

Text == ContentAs("Text")

\* json.Unmarshal / xml.Unmarshal of cached bytes
Unmarshal(b) == IF stream.valid /\ b = stream.data THEN Nil ELSE DecodeError

\* Response.JSON and Response.XML.  Without cached bytes the decoder reads
\* through a TeeReader into a buffer of bufPool until it can return: n bytes,
\* at least vend and at most the body.  The deferred function closes the
\* body, keeps buf.Bytes() (nil for a fresh buffer nothing was written to) as
\* Response.body and puts the buffer back.
Decode(op) ==
  /\ Called
  /\ IF resp.err # Nil
       THEN /\ ret' = [op |-> op, val |-> <<>>, err |-> resp.err]
            /\ UNCHANGED <<respBody, stream, reads, closes, pooled>>
       ELSE IF respBody # <<>>
         THEN /\ ret' = [op |-> op, val |-> <<>>, err |-> Unmarshal(respBody[1])]
              /\ UNCHANGED <<respBody, stream, reads, closes, pooled>>
         ELSE \E n \in 0..Available(stream) :
                /\ IF stream.closed THEN n = 0
                   ELSE IF stream.vend <= Available(stream) THEN n >= stream.vend
                   ELSE n = Available(stream)
                /\ stream' = Close([stream EXCEPT !.pos = IF stream.closed THEN @ ELSE n])
                /\ reads' = reads + 1 /\ closes' = closes + 1
                /\ \E fresh \in BOOLEAN :
                     respBody' = IF n = 0 /\ fresh THEN <<>>
                                 ELSE <<SubSeq(stream.data, 1, n)>>
                /\ pooled' = (respBody' # <<>>)
                /\ ret' = [op |-> op, val |-> <<>>,
                           err |-> IF stream.closed THEN ReadOnClosedBody
                                   ELSE IF Available(stream) < stream.vend THEN Canceled
                                   ELSE IF stream.valid THEN Nil ELSE DecodeError]
  /\ UNCHANGED <<resp, uncached>>
  /\ ResponseFrame

JSON == Decode("JSON")

XML == Decode("XML")

\* jsonMarshal takes the buffer that Response.body shares its memory with
\* from bufPool and writes into it.
PoolReuse ==
  /\ pc = "done" /\ pooled
  /\ respBody # <<>> /\ respBody[1] # <<>>
  /\ respBody' = <<[respBody[1] EXCEPT ![1] = 0]>>
  /\ pooled' = FALSE
  /\ UNCHANGED <<resp, stream, ret, reads, closes, nCalls, uncached>>
  /\ ResponseFrame

\* RawResponse.Cookies()
RawCookies(raw) == IF raw = "ok" THEN stream.cookies ELSE <<>>

\* what Response.Cookies returns
CookiesResult ==
  IF resp.err # Nil THEN [val |-> <<>>, err |-> resp.err]
  ELSE IF Len(RawCookies(resp.raw)) = 0
    THEN [val |-> <<>>, err |-> ErrResponseCookiesNotPresent]
    ELSE [val |-> RawCookies(resp.raw), err |-> Nil]

\* Response.Cookies
Cookies ==
  /\ Called
  /\ ret' = [op |-> "Cookies", val |-> CookiesResult.val, err |-> CookiesResult.err]
  /\ UNCHANGED <<resp, respBody, stream, pooled, reads, closes, uncached>>
  /\ ResponseFrame

\* a Cookie that looks for the name before it looks at what Cookies returned
CookieNameFirst(name) ==
  /\ Called
  /\ ret' = IF FirstNamed(RawCookies(resp.raw), name) = <<>>
              THEN [op |-> "Cookie", val |-> <<>>, err |-> ErrResponseNamedCookieNotPresent]
              ELSE [op |-> "Cookie", val |-> FirstNamed(RawCookies(resp.raw), name),
                    err |-> Nil]
  /\ UNCHANGED <<resp, respBody, stream, pooled, reads, closes, uncached>>
  /\ ResponseFrame

\* Response.Cookie
Cookie(name) ==
  /\ Called
  /\ ret' = IF CookiesResult.err # Nil
              THEN [op |-> "Cookie", val |-> <<>>, err |-> CookiesResult.err]
              ELSE IF FirstNamed(CookiesResult.val, name) = <<>>
                THEN [op |-> "Cookie", val |-> <<>>,
                      err |-> ErrResponseNamedCookieNotPresent]
                ELSE [op |-> "Cookie", val |-> FirstNamed(CookiesResult.val, name),
                      err |-> Nil]
  /\ UNCHANGED <<resp, respBody, stream, pooled, reads, closes, uncached>>
  /\ ResponseFrame

\* an EnsureStatus that does not look at Err first
EnsureStatusUnchecked(code) ==
  /\ Called
  /\ resp' = IF StatusCode(resp.raw) # code
               THEN [resp EXCEPT !.err = BadStatus(StatusCode(resp.raw))] ELSE resp
  /\ ret' = [op |-> "EnsureStatus", val |-> <<>>, err |-> resp'.err]
  /\ UNCHANGED <<respBody, stream, pooled, reads, closes, uncached>>
  /\ ResponseFrame

\* Response.EnsureStatus; what it returns is the Response itself
EnsureStatus(code) ==
  /\ Called
  /\ resp' = IF resp.err = Nil /\ StatusCode(resp.raw) # code
               THEN [resp EXCEPT !.err = BadStatus(StatusCode(resp.raw))] ELSE resp
  /\ ret' = [op |-> "EnsureStatus", val |-> <<>>, err |-> resp'.err]
  /\ UNCHANGED <<respBody, stream, pooled, reads, closes, uncached>>
  /\ ResponseFrame

\* Response.EnsureStatusOk
EnsureStatusOk == EnsureStatus(200)

\* an EnsureStatus2xx that lets 300 pass
EnsureStatus2xxTo300 ==
  /\ Called
  /\ resp' = IF resp.err = Nil
                  /\ ~(200 <= StatusCode(resp.raw) /\ StatusCode(resp.raw) <= 300)
               THEN [resp EXCEPT !.err = BadStatus(StatusCode(resp.raw))] ELSE resp
  /\ ret' = [op |-> "EnsureStatus2xx", val |-> <<>>, err |-> resp'.err]
  /\ UNCHANGED <<respBody, stream, pooled, reads, closes, uncached>>
  /\ ResponseFrame

\* Response.EnsureStatus2xx
EnsureStatus2xx ==
  /\ Called
  /\ resp' = IF resp.err = Nil /\ StatusCode(resp.raw) \div 100 # 2
               THEN [resp EXCEPT !.err = BadStatus(StatusCode(resp.raw))] ELSE resp
  /\ ret' = [op |-> "EnsureStatus2xx", val |-> <<>>, err |-> resp'.err]
  /\ UNCHANGED <<respBody, stream, pooled, reads, closes, uncached>>
  /\ ResponseFrame

\* Response.Save: fileOk tells whether the file can be opened and written.
\* Cached bytes are written with ioutil.WriteFile; else the body is copied
\* from the network into the file and is not kept.
Save(fileOk) ==
  /\ Called
  /\ IF resp.err # Nil
       THEN /\ ret' = [op |-> "Save", val |-> <<>>, err |-> resp.err]
            /\ UNCHANGED <<respBody, stream, reads, closes, uncached>>
       ELSE IF ~fileOk
         THEN /\ ret' = [op |-> "Save", val |-> <<>>, err |-> FileError]
              /\ UNCHANGED <<respBody, stream, reads, closes, uncached>>
         ELSE IF respBody # <<>>
           THEN /\ ret' = [op |-> "Save", val |-> respBody, err |-> Nil]
                /\ UNCHANGED <<respBody, stream, reads, closes, uncached>>
           ELSE /\ Consume(FALSE)
                /\ uncached' = TRUE
                /\ ret' = [op |-> "Save", val |-> <<ReadAll(stream).bytes>>,
                           err |-> ReadAll(stream).err]
  /\ UNCHANGED <<resp, pooled>>
  /\ ResponseFrame

\* Response.Verbose: the response part.  Nothing is read for a ContentLength
\* of 0; cached bytes are printed; else the body is copied from the network
\* to the writer and is not kept.
Verbose ==
  /\ Called
  /\ IF resp.err # Nil
       THEN /\ ret' = [op |-> "Verbose", val |-> <<>>, err |-> resp.err]
            /\ UNCHANGED <<respBody, stream, reads, closes, uncached>>
       ELSE IF stream.length = 0
         THEN /\ ret' = [op |-> "Verbose", val |-> <<>>, err |-> Nil]
              /\ UNCHANGED <<respBody, stream, reads, closes, uncached>>
         ELSE IF respBody # <<>>
           THEN /\ ret' = [op |-> "Verbose", val |-> respBody, err |-> Nil]
                /\ UNCHANGED <<respBody, stream, reads, closes, uncached>>
           ELSE /\ Consume(FALSE)
                /\ uncached' = TRUE
                /\ ret' = [op |-> "Verbose", val |-> <<ReadAll(stream).bytes>>,
                           err |-> ReadAll(stream).err]
  /\ UNCHANGED <<resp, pooled>>
  /\ ResponseFrame

\* ---------------------------------------------------------- specifications
RetryArgs == (0..MaxAttempts) \X (0..MaxDelay) \X ConditionArgs

\* Sticky errors and interceptors: a dispatch under the default retry policy.
NextPipeline ==
  \/ \E valid \in BOOLEAN : SetProxyFromURL(valid)
  \/ \E is \in InterceptorArgs : UseRequestInterceptors(is)
  \/ \E is \in InterceptorArgs : UseResponseInterceptors(is)
  \/ \E ctx \in {-1, 0} : SetContext(ctx)
  \/ DoStart
  \/ ExchangeBegin
  \/ ExchangeReturn
  \/ DoReturn

SpecPipeline == Init /\ [][NextPipeline]_vars

\* Client-level and request-level retry policies.
NextPolicy ==
  \/ \E a \in RetryArgs : ClientSetRetry(a[1], a[2], a[3])
  \/ \E a \in RetryArgs : RequestSetRetry(a[1], a[2], a[3])
  \/ DoStart
  \/ ExchangeBegin
  \/ ExchangeReturn
  \/ SleepTimer
  \/ DoReturn
  \/ Tick

SpecPolicy == Init /\ [][NextPolicy]_vars

\* The retry loop against deadlines: request policy, timeout and context.
NextRetry ==
  \/ \E a \in RetryArgs : RequestSetRetry(a[1], a[2], a[3])
  \/ \E t \in 0..MaxTimeout : SetTimeout(t)
  \/ \E ctx \in 0..MaxTimeout : SetContext(ctx)
  \/ DoStart
  \/ ExchangeBegin
  \/ ExchangeReturn
  \/ SleepTimer
  \/ SleepCtxDone
  \/ DoReturn
  \/ Tick

SpecRetry == Init /\ [][NextRetry]_vars

MultipartRetryArgs == {<<2, 0, <<>>>>, <<2, 1, <<"p">>>>}
MultipartDeadlines == {0, 2}

NextMultipart ==
  \/ \E f \in FileKinds : SetMultipart(f)
  \/ \E ctx \in MultipartDeadlines : SetContext(ctx)
  \/ \E t \in MultipartDeadlines : SetTimeout(t)
  \/ \E a \in MultipartRetryArgs : RequestSetRetry(a[1], a[2], a[3])
  \/ \E k \in 1..Len(enc) : EncoderNoName(k)
  \/ \E k \in 1..Len(enc) : EncoderWrite(k)
  \/ \E k \in 1..Len(enc) : EncoderWriteClosed(k)
  \/ \E k \in 1..Len(enc) : EncoderCancel(k)
  \/ \E k \in 1..Len(enc) : EncoderClose(k)
  \/ DoStart
  \/ ExchangeBegin
  \/ ExchangeReturn
  \/ SleepTimer
  \/ SleepCtxDone
  \/ DoReturn
  \/ Tick

SpecMultipart == Init /\ [][NextMultipart]_vars

\* The setters of a Client, and Do.
NextClient ==
  \/ \E transport \in Transports : SetTransport(transport)
  \/ \E policy \in {"nil", "disableRedirect"} : SetRedirect(policy)
  \/ \E jar \in {"nil", "cookiejar"} : SetCookieJar(jar)
  \/ \E t \in {"DefaultTimeout", "1s"} : ClientSetTimeout(t)
  \/ \E proxy \in {"nil"} : SetProxy(proxy)
  \/ \E valid \in BOOLEAN : SetProxyFromURL(valid)
  \/ SetTLSClientConfig(NoTLSClientConfig)
  \/ AppendClientCertificates
  \/ \E fileOk \in BOOLEAN : AppendRootCAs(fileOk)
  \/ DisableVerify
  \/ ClientSetRetry(2, 0, <<>>)
  \/ UseRequestInterceptors(<<"a">>)
  \/ UseResponseInterceptors(<<"a">>)
  \/ DoStart
  \/ ExchangeBegin
  \/ ExchangeReturn
  \/ DoReturn

SpecClient == Init /\ [][NextClient]_vars

\* The settings of the Client and of the Request that Do merges.
NextMerge ==
  \/ \E host \in {"c.example"} : ClientSetHost(host)
  \/ \E k \in Spellings, v \in {"A"} : ClientSetHeaders(k, v)
  \/ ClientSetBasicAuth("cu", "cp")
  \/ ClientSetBearerToken("ct")
  \/ \E ctx \in {"", "cctx"} : ClientSetContext(ctx)
  \/ \E host \in {"r.example"} : WithHost(host)
  \/ \E k \in Spellings, v \in {"B"} : WithHeaders(k, v)
  \/ WithBasicAuth("ru", "rp")
  \/ WithBearerToken("rt")
  \/ WithContext("rctx")
  \/ DoStart
  \/ ExchangeBegin
  \/ ExchangeReturn
  \/ DoReturn

SpecMerge == Init /\ [][NextMerge]_vars

\* Dispatches of one configured Client that run at the same time; the
\* setters run before the first of them.
NextConcurrent ==
  \/ \E k \in {"Referer"}, v \in {"A"} : ClientSetHeaders(k, v)
  \/ \E k \in {"Referer", "Origin"}, v \in {"B"} : WithHeaders(k, v)
  \/ ClientSetBasicAuth("cu", "cp")
  \/ \E valid \in BOOLEAN : SetProxyFromURL(valid)
  \/ UseRequestInterceptors(<<"a">>)
  \/ UseResponseInterceptors(<<"a">>)
  \/ ClientSetRetry(2, 0, <<>>)
  \/ DoStart
  \/ ExchangeBegin
  \/ ExchangeReturn
  \/ SleepTimer
  \/ DoReturn
  \/ ConcurrentDo
  \/ \E k \in 1..MaxDispatches : ConcurrentReturn(k)

SpecConcurrent == Init /\ [][NextConcurrent]_vars

\* The verb methods of a configured Client.
NextVerbs ==
  \/ \E valid \in BOOLEAN : SetProxyFromURL(valid)
  \/ \E transport \in {NilTransport} : SetTransport(transport)
  \/ SetCookieJar("nil")
  \/ UseRequestInterceptors(<<"a">>)
  \/ UseResponseInterceptors(<<"a">>)
  \/ ClientSetRetry(2, 0, <<>>)
  \/ \E ctx \in {-1, 0} : SetContext(ctx)
  \/ ClientGet
  \/ ClientHead
  \/ ClientPost
  \/ ClientPut
  \/ ClientPatch
  \/ ClientDelete
  \/ \E method \in {"GET", "OPTIONS"} : ClientSend(method)
  \/ DoStart
  \/ ExchangeBegin
  \/ ExchangeReturn
  \/ SleepTimer
  \/ DoReturn

SpecVerbs == Init /\ [][NextVerbs]_vars

\* The context setters of the Request and of the Client, and Do.
NextContext ==
  \/ \E ctx \in {-1, 0, 1} : SetContext(ctx)
  \/ \E ctx \in {"", "cctx"} : ClientSetContext(ctx)
  \/ WithContext("rctx")
  \/ DoStart
  \/ ExchangeBegin
  \/ ExchangeReturn
  \/ DoReturn

SpecContext == Init /\ [][NextContext]_vars

\* The setters of a Request, with the encoder that SetMultipart starts.
NextRequest ==
  \/ \E host \in {"", "h"} : RequestSetHost(host)
  \/ \E k \in Spellings, v \in {"A"} : RequestSetHeaders(k, v)
  \/ RequestSetBasicAuth("u", "p")
  \/ RequestSetBearerToken("t")
  \/ \E marshalOk \in BOOLEAN : SetJSON(marshalOk)
  \/ \E ctx \in {-1, 0} : SetContext(ctx)
  \/ \E t \in {0, 1} : SetTimeout(t)
  \/ \E a \in MultipartRetryArgs : RequestSetRetry(a[1], a[2], a[3])
  \/ \E f \in FileKinds : SetMultipart(f)
  \/ \E k \in 1..Len(enc) : EncoderNoName(k)
  \/ \E k \in 1..Len(enc) : EncoderCancel(k)
  \/ DoStart

SpecRequest == Init /\ [][NextRequest]_vars

\* SetQuery and SetHeaders on a Request whose URL may have a query: the query
\* keys are "B" and "a"; the values are a string and an array that holds a
\* string, a value filter drops and an int.
QueryKeys == {<<66>>, <<97>>}
HeaderKeys == {"Referer", "referer", "User-Agent"}
AppendValues ==
  {[type |-> "string", elems |-> <<StringElem("x")>>],
   [type |-> "[]interface{}", elems |-> <<StringElem("z"), OtherElem, IntElem(3)>>]}
URLQueries ==
  {<<>>,
   <<[k |-> <<97>>, v |-> "q", ok |-> TRUE]>>,
   <<[k |-> <<97>>, v |-> "q", ok |-> TRUE], [k |-> <<66>>, v |-> "%zz", ok |-> FALSE]>>}
\* the KV arguments: the maps from some of the keys to values
KVArgs(keys) == UNION {[ks -> AppendValues] : ks \in (SUBSET keys) \ {{}}}

NextAppend ==
  \/ \E params \in KVArgs(QueryKeys) : SetQuery(params)
  \/ \E headers \in KVArgs(HeaderKeys) : RequestSetHeadersKV(headers)
  \/ DoStart

SpecAppend == InitOf({EmptyBody}, URLQueries) /\ [][NextAppend]_vars

\* Responses with and without a gzip Content-Encoding ("gzip", "GZIP", "br"
\* or none), of ContentLength 0, unknown or 2, from a transport that hands
\* over the body or a *gzip.Reader, with and without a gzip header.
GzipResponses ==
  {[ResponseBody(<<1, 2>>, length, 2, TRUE) EXCEPT
      !.encoding = encoding, !.sent = sent, !.reader = sent, !.gzOk = gzOk] :
     encoding \in {<<>>, gzip, <<71, 90, 73, 80>>, <<98, 114>>},
     length \in {0, -1, 2}, sent \in {"body", "gzip.Reader"}, gzOk \in BOOLEAN}

NextGzip ==
  \/ ClientSetRetry(2, 0, <<>>)
  \/ UseResponseInterceptors(<<"a">>)
  \/ DoStart
  \/ ExchangeBegin
  \/ ExchangeReturn
  \/ SleepTimer
  \/ DoReturn

SpecGzip == InitWith(GzipResponses) /\ [][NextGzip]_vars

\* A Request with a JSON body, the other users of the buffer pool, and its
\* dispatch.
NextJSONBody ==
  \/ \E marshalOk \in BOOLEAN : SetJSON(marshalOk)
  \/ SetText
  \/ BufferReuse
  \/ ClientSetRetry(2, 0, <<>>)
  \/ UseRequestInterceptors(<<"a">>)
  \/ DoStart
  \/ ExchangeBegin
  \/ ExchangeReturn
  \/ SleepTimer
  \/ DoReturn

SpecJSONBody == Init /\ [][NextJSONBody]_vars

\* A Request with a body that is dispatched under a retry policy of two
\* attempts; the predicate p tells whether to try again.
NextRebody ==
  \/ SetContent
  \/ \E marshalOk \in {TRUE} : SetJSON(marshalOk)
  \/ \E f \in {"ok"} : SetMultipart(f)
  \/ \E conditions \in {<<>>, <<"p">>} : ClientSetRetry(2, 0, conditions)
  \/ \E k \in 1..Len(enc) : EncoderWrite(k)
  \/ \E k \in 1..Len(enc) : EncoderWriteClosed(k)
  \/ \E k \in 1..Len(enc) : EncoderCancel(k)
  \/ \E k \in 1..Len(enc) : EncoderClose(k)
  \/ DoStart
  \/ ExchangeBegin
  \/ ExchangeReturn
  \/ SleepTimer
  \/ DoReturn

SpecRebody == Init /\ [][NextRebody]_vars

\* The body setters of a Request.
NextBody ==
  \/ SetContent
  \/ SetText
  \/ SetForm
  \/ \E marshalOk \in BOOLEAN : SetJSON(marshalOk)
  \/ \E f \in FileKinds : SetMultipart(f)
  \/ \E k \in 1..Len(enc) : EncoderNoName(k)
  \/ \E k \in 1..Len(enc) : EncoderCancel(k)
  \/ DoStart

SpecBody == Init /\ [][NextBody]_vars

\* The methods of the Response that a dispatch under the default retry policy
\* returned.
StatusCodes == {200, 500}

NextResponse ==
  \/ UseResponseInterceptors(<<"a">>)
  \/ DoStart
  \/ ExchangeBegin
  \/ ExchangeReturn
  \/ DoReturn
  \/ Content
  \/ Text
  \/ JSON
  \/ XML
  \/ PoolReuse
  \/ Cookies
  \/ Cookie("uid")
  \/ \E code \in StatusCodes : EnsureStatus(code)
  \/ EnsureStatusOk
  \/ EnsureStatus2xx
  \/ \E fileOk \in BOOLEAN : Save(fileOk)
  \/ Verbose

SpecResponse == InitWith(ServerBodies) /\ [][NextResponse]_vars

\* The answers of a server by status code, and the status assertions.
ServerStatuses ==
  {[EmptyBody EXCEPT !.status = code] : code \in {199, 200, 201, 299, 300, 403}}

NextStatus ==
  \/ DoStart
  \/ ExchangeBegin
  \/ ExchangeReturn
  \/ DoReturn
  \/ \E code \in {200, 201, 403} : EnsureStatus(code)
  \/ EnsureStatusOk
  \/ EnsureStatus2xx

SpecStatus == InitWith(ServerStatuses) /\ [][NextStatus]_vars

\* The answers of a server by the cookies they set, and the cookie getters.
CookieNames == {"uid", "uuid"}
ServerCookies ==
  {[EmptyBody EXCEPT !.cookies = cookies] :
     cookies \in {<<>>, <<<<"uid", "1">>>>, <<<<"sid", "2">>>>,
                  <<<<"sid", "2">>, <<"uid", "1">>, <<"uid", "3">>>>}}

NextCookies ==
  \/ DoStart
  \/ ExchangeBegin
  \/ ExchangeReturn
  \/ DoReturn
  \/ EnsureStatus(403)
  \/ Cookies
  \/ \E name \in CookieNames : Cookie(name)

SpecCookies == InitWith(ServerCookies) /\ [][NextCookies]_vars

\* The cookie jar of a Client across a dispatch.
NextJar ==
  \/ \E jar \in {"nil", "cookiejar"} : SetCookieJar(jar)
  \/ DoStart
  \/ ExchangeBegin
  \/ ExchangeReturn
  \/ DoReturn
  \/ \E urlOk \in BOOLEAN : FilterCookies(urlOk)
  \/ \E urlOk \in BOOLEAN, name \in CookieNames : FilterCookie(urlOk, name)

SpecJar == InitWith(ServerCookies) /\ [][NextJar]_vars

\* Maps of Values and Headers: the keys "B", "a" and "b-a", and a value of
\* each supported type and of one that is not.
KVKeys == {<<66>>, <<97>>, <<98, 45, 97>>}
KVValues ==
  {[type |-> "string", elems |-> <<StringElem("x")>>],
   [type |-> "int", elems |-> <<IntElem(7)>>],
   [type |-> "[]string", elems |-> <<StringElem("y"), StringElem("x")>>],
   [type |-> "[]int", elems |-> <<IntElem(2), IntElem(1)>>],
   [type |-> "[]interface{}", elems |-> <<StringElem("z"), OtherElem, IntElem(3)>>],
   [type |-> "bool", elems |-> <<OtherElem>>]}

NextKV ==
  \/ \E key \in KVKeys, value \in KVValues : KVSet(key, value)
  \/ \E key \in KVKeys : KVDel(key)
  \/ ValuesEncode
  \/ HeadersString

SpecKV == Init /\ [][NextKV]_vars

\* ------------------------------------------------------------------ claims
\* the dispatch went past the sticky-error checks of Do
Dispatched == pc # "setup" /\ cErr = Nil /\ reqErr = Nil

\* C1: if the Client's Err is set, or else the Request's Err, Do returns a
\* Response whose Err is that error (the Client's first), no request or
\* response interceptor is invoked and no exchange is performed.
C1_StickyErrorShortCircuits ==
  (pc # "setup" /\ (cErr # Nil \/ reqErr # Nil)) =>
    /\ pc = "done"
    /\ resp = [raw |-> "nil", err |-> IF cErr # Nil THEN cErr ELSE reqErr]
    /\ reqLog = <<>> /\ respLog = <<>> /\ exchanges = 0

\* Do has returned for a Client and a Request that both carry an error, with
\* interceptors registered on the Client.
C1_Witness ==
  /\ pc = "done" /\ cErr # Nil /\ reqErr # Nil
  /\ requestInterceptors # <<>> /\ responseInterceptors # <<>>
  /\ resp.err = cErr

\* the attempt loop has ended (doWithRetry has returned)
LoopEnded ==
  /\ Dispatched /\ pc \in {"after", "done"}
  /\ reqLog = <<>> \/ ~reqLog[Len(reqLog)].failed

\* the time at which the effective context expires, 0 if it has no deadline
EffectiveDeadline ==
  IF reqCtx.user > 0 /\ toDeadline > 0
    THEN (IF reqCtx.user < toDeadline THEN reqCtx.user ELSE toDeadline)
    ELSE IF reqCtx.user > 0 THEN reqCtx.user ELSE toDeadline

\* every predicate evaluated during the dispatch returned true
AlwaysRetry == retry.conditions # <<>> /\ hist.allTrue

ContextErrors == {Canceled, DeadlineExceeded}

\* C2 (as stated): with predicates that always return true and a context or
\* timeout that expires before attempts*delay has elapsed, the attempt loop
\* ends with the context's error in Err.
C2_Original ==
  (LoopEnded /\ AlwaysRetry /\ EffectiveDeadline > 0
     /\ EffectiveDeadline < retry.attempts * retry.delay)
    => hist.loopResp.err \in ContextErrors

\* C2 (amended): with predicates that always return true and a context or
\* timeout that expires before (attempts-1)*delay has elapsed, the attempt
\* loop ends with the context's error in Err, or with the error of the
\* background encoder that the check after an exchange prefers to it; Err is
\* never nil.
C2_DeadlineBeforeLastAttempt ==
  (LoopEnded /\ AlwaysRetry /\ EffectiveDeadline > 0
     /\ EffectiveDeadline < (retry.attempts - 1) * retry.delay)
    => /\ hist.loopResp.err \in ContextErrors \cup {RequestError("SetMultipart")}
       /\ hist.seen # "none"
       /\ (pc = "after" \/ \A k \in 1..Len(respLog) : ~respLog[k].failed)
            => resp.err = hist.loopResp.err

\* The deadline expired during the delay and Do has returned from the select.
C2_Witness ==
  /\ pc = "done" /\ LoopEnded /\ AlwaysRetry
  /\ EffectiveDeadline > 0
  /\ EffectiveDeadline < (retry.attempts - 1) * retry.delay
  /\ hist.seen = "select" /\ lastExch.err = Nil
  /\ resp.err = DeadlineExceeded

\* the index of the first attempt that did not warrant a retry, attempts + 1
\* if there was none
FirstStop == IF hist.stopAt = 0 THEN retry.attempts + 1 ELSE hist.stopAt

\* C3: with N attempts and a context that never becomes done, exactly
\* min(k, N) exchanges are performed, k the first attempt that does not
\* warrant a retry, and the loop leaves the Response of the last exchange as
\* it is (Do returns it unless a response interceptor sets Err).
C3_ExchangesUntilNoRetry ==
  (LoopEnded /\ ctxErr = Nil) =>
    /\ exchanges = (IF FirstStop < retry.attempts THEN FirstStop ELSE retry.attempts)
    /\ hist.nEval = exchanges
    /\ hist.loopResp = lastExch
    /\ (pc = "after" \/ \A k \in 1..Len(respLog) : ~respLog[k].failed)
         => resp = lastExch

\* All attempts of a policy of at least two warranted a retry; Do returned the
\* last Response, which carries no error.
C3_Witness ==
  /\ pc = "done" /\ LoopEnded /\ ctxErr = Nil
  /\ retry.attempts >= 2 /\ exchanges = retry.attempts
  /\ hist.stopAt = 0 /\ hist.shouldRetry
  /\ resp.err = Nil /\ resp.raw = "ok"

\* C4 (as stated): after an exchange the predicates are evaluated in
\* registration order up to the first that returns true, and the attempt is a
\* success (no retry) exactly when the Response has no Err and no predicate
\* returned true.
C4_Original ==
  (Dispatched /\ hist.nEval > 0 /\ hist.seen # "check") =>
    /\ Len(condLog) <= Len(retry.conditions)
    /\ \A k \in 1..Len(condLog) :
         /\ condLog[k].id = retry.conditions[k]
         /\ k < Len(condLog) => ~condLog[k].result
    /\ Len(condLog) < Len(retry.conditions) => condLog[Len(condLog)].result
    /\ ~hist.shouldRetry <=>
         (lastExch.err = Nil /\ \A k \in 1..Len(condLog) : ~condLog[k].result)

\* C5 (as stated): the policy used is the request-level one whenever
\* Request.SetRetry was called, whatever attempts it was given, else the
\* Client's whenever Client.SetRetry was called, else one attempt, no delay.
C5_Original ==
  (Dispatched /\ (reqLog = <<>> \/ ~reqLog[Len(reqLog)].failed)) =>
    /\ rRetryArg >= 1 => retry.attempts = rRetryArg
    /\ (rRetryArg = -1 /\ cRetryArg >= 1) => retry.attempts = cRetryArg
    /\ (rRetryArg = -1 /\ cRetryArg = -1) => retry = defaultRetry

\* C6: when the context is done at the check after an exchange, no predicate
\* is evaluated, no further exchange is performed and Err becomes the
\* background encoder's error if one is pending, else the context's error,
\* also when the exchange returned a response without error.
C6_ContextDoneAtCheck ==
  (Dispatched /\ hist.ctxAtCheck # Nil) =>
    /\ pc \in {"after", "done"} /\ hist.seen = "check"
    /\ condLog = <<>> /\ hist.nEval = exchanges - 1
    /\ exchanges = i + 1
    /\ hist.loopResp = [raw |-> lastExch.raw,
                        err |-> IF hist.pending # Nil THEN hist.pending
                                ELSE hist.ctxAtCheck]
    /\ pc = "after" => resp = hist.loopResp

\* The exchange returned a response without error, the context was done at
\* the check and the encoder's error was pending.
C6_Witness ==
  /\ pc = "done" /\ hist.ctxAtCheck # Nil
  /\ lastExch.err = Nil /\ lastExch.raw = "ok"
  /\ hist.pending = RequestError("SetMultipart")
  /\ retry.conditions # <<>>
  /\ resp.err = hist.pending

C8_Original ==
  (LoopEnded /\ pc = "done" /\ \E k \in 1..Len(enc) : enc[k].failed)
    => resp.err # Nil

\* C9 (as stated): when the context is cancelled because the encoder failed,
\* the error the loop reports is the encoder's RequestError, whether the
\* cancellation is observed at the check or in the select.
C9_Original ==
  (LoopEnded /\ hist.seen # "none" /\ ctxErr = Canceled
     /\ \E k \in reqCtx.mps : enc[k].cancelled)
    => hist.loopResp.err = RequestError("SetMultipart")

\* C10: the request interceptors run in registration order; at the first one
\* that returns an error no later request interceptor runs, no exchange is
\* performed, no response interceptor runs and the Response's Err is that
\* error; when none returns an error all of them have run.
C10_RequestInterceptorsInOrder ==
  Dispatched =>
    /\ Len(reqLog) <= Len(requestInterceptors)
    /\ \A k \in 1..Len(reqLog) :
         /\ reqLog[k].id = requestInterceptors[k]
         /\ k < Len(reqLog) => ~reqLog[k].failed
    /\ (\A k \in 1..Len(reqLog) : ~reqLog[k].failed)
         => Len(reqLog) = Len(requestInterceptors)
    /\ (reqLog # <<>> /\ reqLog[Len(reqLog)].failed) =>
         /\ pc = "done" /\ exchanges = 0 /\ respLog = <<>>
         /\ resp = [raw |-> "nil",
                    err |-> RequestInterceptorError(reqLog[Len(reqLog)].id)]

\* Two different interceptors are registered, the first returned an error and
\* Do has returned.
C10_Witness ==
  /\ pc = "done" /\ cErr = Nil /\ reqErr = Nil
  /\ Len(requestInterceptors) = 2 /\ requestInterceptors[1] # requestInterceptors[2]
  /\ responseInterceptors # <<>>
  /\ Len(reqLog) = 1 /\ reqLog[1].failed

\* C11: after the attempt loop, the response interceptors run in registration
\* order on the final Response; at the first that returns an error Err becomes
\* that error and the remaining ones are skipped; if none returns an error,
\* Err and RawResponse are as the attempt loop left them.  None runs before
\* the loop has ended.
C11_ResponseInterceptorsInOrder ==
  /\ (Dispatched /\ pc # "done") => respLog = <<>>
  /\ (LoopEnded /\ pc = "done") =>
       /\ Len(respLog) <= Len(responseInterceptors)
       /\ \A k \in 1..Len(respLog) :
            /\ respLog[k].id = responseInterceptors[k]
            /\ k < Len(respLog) => ~respLog[k].failed
       /\ resp.raw = hist.loopResp.raw
       /\ IF respLog # <<>> /\ respLog[Len(respLog)].failed
            THEN resp.err = ResponseInterceptorError(respLog[Len(respLog)].id)
            ELSE /\ Len(respLog) = Len(responseInterceptors)
                 /\ resp = hist.loopResp

\* Two different response interceptors are registered, the exchange returned
\* a response without error, the first interceptor returned an error and Do
\* has returned.
C11_Witness ==
  /\ pc = "done" /\ LoopEnded
  /\ Len(responseInterceptors) = 2
  /\ responseInterceptors[1] # responseInterceptors[2]
  /\ hist.loopResp = [raw |-> "ok", err |-> Nil]
  /\ Len(respLog) = 1 /\ respLog[1].failed

\* C12 (as stated): for every sequence of calls of Content, Text, JSON, XML,
\* Save and Verbose on a Response with nil Err, the body stream is read at
\* most once and closed exactly once, by the first call that consumes it.
C12_Original ==
  (pc = "done" /\ resp.err = Nil) =>
    /\ reads <= 1 /\ closes <= 1
    /\ reads = closes

\* C13 (as stated): whichever of Content, Text, JSON and XML came first, the
\* bytes it cached are the complete body the server sent, and Text returns
\* the complete body.
C13_Original ==
  (pc = "done" /\ resp.err = Nil /\ ~uncached) =>
    /\ respBody # <<>> => respBody[1] = stream.data
    /\ (ret.op = "Text" /\ ret.err = Nil) => ret.val = stream.data

\* C14: once the Response that Do returned has a non-nil Err, every method
\* called on it leaves Err (and RawResponse) as it is and returns that error,
\* or the Response carrying it.
C14_StickyResponseError ==
  [][(pc = "done" /\ resp.err # Nil) =>
       /\ resp' = resp
       /\ nCalls' # nCalls => ret'.err = resp.err]_vars

\* A response interceptor set Err on a Response with a bad status, and
\* EnsureStatus2xx was then called as the last of several methods.
C14_Witness ==
  /\ pc = "done" /\ nCalls = MaxCalls
  /\ resp.raw = "bad" /\ resp.err = ResponseInterceptorError("a")
  /\ ret.op = "EnsureStatus2xx" /\ ret.err = resp.err

\* C15 (as stated): whenever the Response has a non-nil Err, Content returns
\* no bytes and Text the empty string, together with that error.
C15_Original ==
  (pc = "done" /\ resp.err # Nil /\ ret.op \in {"Content", "Text"}) =>
    /\ ret.err = resp.err
    /\ ret.op = "Content" => ret.val \in {<<>>, <<<<>>>>}
    /\ ret.op = "Text" => ret.val = <<>>

\* C16: once the Request's Err is set, every setter leaves Err and every
\* other field of the Request, its RawRequest included, as they are and
\* starts no encoder goroutine; RawRequest stays nil where NewRequest left it
\* nil, and Raw keeps returning the first error.
C16_StickyRequestError ==
  [][reqErr # Nil =>
       /\ Len(enc') = Len(enc)
       /\ RequestRaw' = RequestRaw
       /\ outbound' = outbound /\ requestSettings' = requestSettings
       \* a step that is not one of an encoder goroutine started earlier
       /\ enc' = enc => requestVars' = requestVars]_vars

\* SetContext(nil) raised the error on a Request that SetMultipart and other
\* setters had configured, and setters were called afterwards.
C16_Witness ==
  /\ reqErr = RequestError("SetContext") /\ rLate = 2
  /\ Len(enc) = 1 /\ outbound.Host = "h" /\ timeout = 1

\* the errors a ClientError of a cause can wrap
Causes(cause) ==
  CASE cause = "SetProxyFromURL" -> {ParseError}
    [] cause = "AppendRootCAs" -> {ErrUnexpectedTransport, ReadFileError}
    [] cause = "SetContext" -> {ErrNilContext}
    [] OTHER -> {ErrUnexpectedTransport}

\* C17: once the Client's Err is set, every later setter leaves the Client,
\* its raw HTTP client and the transport as they are; Raw and Do report that
\* first error, a ClientError that wraps the cause it was raised with.
C17_StickyClientError ==
  [][/\ cErr # Nil =>
          /\ clientVars' = clientVars /\ clientSettings' = clientSettings
          /\ rawClient' = rawClient /\ cErrCause' = cErrCause
          /\ ClientRaw' = ClientRaw
          /\ (pc = "setup" /\ pc' # "setup") => (pc' = "done" /\ resp'.err = cErr)
     /\ cErr' # Nil =>
          /\ cErr'[1] = "ClientError"
          /\ cErrCause' \in Causes(cErr'[2])]_vars

\* DisableVerify met a nil transport, setters were called afterwards, and Do
\* returned the ClientError.
C17_Witness ==
  /\ cErr = ClientError("DisableVerify") /\ cErrCause = ErrUnexpectedTransport
  /\ rawClient.Transport = NilTransport /\ cLate = 2
  /\ pc = "done" /\ resp.err = cErr

\* the Request was dispatched and the merge of Do was done
MergeDone == pc # "setup" /\ cErr = Nil /\ reqErr = Nil

\* the values the headers of one level hold for a header name, over all
\* spellings of the name
ValuesFor(headers, name) ==
  {<<headers[k]>> : k \in {x \in DOMAIN headers : CanonicalHeaderKey(x) = name}}

\* C18: for every header name the outbound request carries exactly one of the
\* request-level values when the Request has the name in some spelling, and
\* else exactly one of the client-level values when the Client has it.
C18_Original ==
  MergeDone =>
    \A name \in {"Referer", "Origin"} :
      LET fromRequest == ValuesFor(requestSettings.Headers, name)
          fromClient == ValuesFor(clientSettings.Headers, name)
      IN /\ fromRequest # {} => \E v \in fromRequest : outbound.Header[name] = <<v>>
         /\ (fromRequest = {} /\ fromClient # {}) =>
              \E v \in fromClient : outbound.Header[name] = <<v>>

\* C19: when the Request specifies basic auth or a bearer token, Authorization
\* is built from a request-level credential; else from a client-level one
\* when the Client holds one.
C19_Original ==
  MergeDone =>
    LET of(st) == (IF st.auth # <<>> THEN {<<BasicValue(st.auth)>>} ELSE {})
                    \cup (IF st.bearerToken # "" THEN {<<BearerValue(st.bearerToken)>>}
                          ELSE {})
        fromRequest == of(requestSettings)
        fromClient == of(clientSettings)
    IN /\ fromRequest # {} => outbound.Header["Authorization"] \in fromRequest
       /\ (fromRequest = {} /\ fromClient # {}) =>
            outbound.Header["Authorization"] \in fromClient

\* C20: after the merge the outbound Host is the Request's host when it is
\* not empty, else the Client's when not empty, else the URL's; the context
\* is the Request's when set, else the Client's when set, else the
\* background context of the request.
C20_HostAndContextPrecedence ==
  MergeDone =>
    /\ outbound.Host = IF requestSettings.Host # "" THEN requestSettings.Host
                       ELSE IF clientSettings.Host # "" THEN clientSettings.Host
                       ELSE "url"
    /\ outbound.ctx = IF requestSettings.ctx # "" THEN requestSettings.ctx
                      ELSE IF clientSettings.ctx # "" THEN clientSettings.ctx
                      ELSE "background"

\* Host and context are set at both levels and the Request's went out.
C20_Witness ==
  /\ MergeDone
  /\ clientSettings.Host = "c.example" /\ requestSettings.Host = "r.example"
  /\ clientSettings.ctx = "cctx" /\ requestSettings.ctx = "rctx"
  /\ outbound.Host = "r.example" /\ outbound.ctx = "rctx"

\* C21: a nil context given to Request.SetContext sets the Request's Err to a
\* RequestError that wraps ErrNilContext, given to Client.SetContext it sets
\* the Client's Err to a ClientError that wraps ErrNilContext; the context
\* held before stays, and Do returns that error without any exchange.
C21_NilContextRejected ==
  [][/\ (reqErr = Nil /\ reqErr' = RequestError("SetContext")) =>
          /\ rErrCause' = ErrNilContext
          /\ reqCtx' = reqCtx /\ outbound' = outbound
          /\ requestSettings' = requestSettings
     /\ (cErr = Nil /\ cErr' = ClientError("SetContext")) =>
          /\ cErrCause' = ErrNilContext
          /\ clientSettings' = clientSettings /\ outbound' = outbound
     /\ (pc = "setup" /\ pc' # "setup"
           /\ (cErr = ClientError("SetContext") \/ reqErr = RequestError("SetContext"))) =>
          /\ pc' = "done" /\ exchanges' = 0
          /\ resp'.err = (IF cErr # Nil THEN cErr ELSE reqErr)
          /\ resp'.err[2] = "SetContext"
          /\ outbound' = outbound]_vars

\* The Client held a context and the Request another when each was given a
\* nil context, and Do returned the Client's error.
C21_Witness ==
  /\ cErr = ClientError("SetContext") /\ reqErr = RequestError("SetContext")
  /\ clientSettings.ctx = "cctx" /\ reqCtx.user = 1
  /\ pc = "done" /\ resp.err = cErr /\ exchanges = 0

\* C22: a dispatch through a verb method of c is governed by c: its sticky
\* error ends it before any exchange, its request interceptors run, its retry
\* policy is the client-level one, and its raw client carries the exchange.
C22_Original ==
  pc # "setup" =>
    /\ BuildCheck(cErr, reqErr) # Nil =>
         (resp.err = BuildCheck(cErr, reqErr) /\ exchanges = 0)
    /\ (BuildCheck(cErr, reqErr) = Nil /\ requestInterceptors # <<>>) => reqLog # <<>>
    /\ (BuildCheck(cErr, reqErr) = Nil /\ pc \in {"attempt", "exchange"}) =>
         retry = EffectiveRetry(rRetry, cRetry)
    /\ ClientOf(receiver).RawClient = rawClient

\* C23: on a Response without Err, EnsureStatus(code) keeps Err nil exactly
\* when the status code is code, EnsureStatusOk exactly when it is 200,
\* EnsureStatus2xx exactly when it is between 200 and 299; otherwise Err names
\* the status code; the body is neither read nor closed.
C23_StatusAssertions ==
  [][(pc = "done" /\ resp.err = Nil /\ nCalls' # nCalls
        /\ ret'.op \in {"EnsureStatus", "EnsureStatus2xx"}) =>
       LET status == StatusCode(resp.raw)
       IN /\ \A code \in {200, 201, 403} :
               EnsureStatus(code) => (resp'.err = Nil <=> status = code)
          /\ EnsureStatusOk => (resp'.err = Nil <=> status = 200)
          /\ EnsureStatus2xx => (resp'.err = Nil <=> (200 <= status /\ status <= 299))
          /\ resp'.err # Nil => resp'.err = <<"sreq: bad status", ToString(status)>>
          /\ stream' = stream /\ reads' = reads /\ closes' = closes
          /\ respBody' = respBody /\ resp'.raw = resp.raw]_vars

\* EnsureStatus2xx passed on a 299 and EnsureStatus(201) then set the error
\* that names 299.
C23_Witness ==
  /\ pc = "done" /\ resp.raw = "ok" /\ stream.status = 299 /\ nCalls = 2
  /\ ret.op = "EnsureStatus" /\ resp.err = <<"sreq: bad status", "299">>
  /\ reads = 0 /\ closes = 0

\* C24: Cookies returns ErrResponseCookiesNotPresent when the response sets
\* no cookie; Cookie(name) returns the cookie of that name when the response
\* sets one, ErrResponseNamedCookieNotPresent when it sets cookies but none of
\* that name; both return the sticky Err of the Response before anything
\* else.
C24_CookieErrors ==
  [][(pc = "done" /\ nCalls' # nCalls /\ ret'.op \in {"Cookies", "Cookie"}) =>
       LET set == RawCookies(resp.raw)
           names == {set[k][1] : k \in 1..Len(set)}
       IN IF resp.err # Nil THEN ret'.err = resp.err /\ ret'.val = <<>>
          ELSE /\ Cookies =>
                    /\ set = <<>> => ret'.err = ErrResponseCookiesNotPresent
                    /\ set # <<>> => (ret'.err = Nil /\ ret'.val = set)
               /\ \A name \in CookieNames : Cookie(name) =>
                    /\ set = <<>> => ret'.err = ErrResponseCookiesNotPresent
                    /\ (set # <<>> /\ name \notin names) =>
                         ret'.err = ErrResponseNamedCookieNotPresent
                    /\ name \in names =>
                         /\ ret'.err = Nil
                         /\ \E k \in 1..Len(set) : ret'.val = <<set[k]>> /\ set[k][1] = name
     ]_vars

\* Cookie missed the name among the cookies the response sets.
C24_Witness ==
  /\ pc = "done" /\ resp.err = Nil /\ resp.raw = "ok"
  /\ stream.cookies = <<<<"sid", "2">>>>
  /\ ret.op = "Cookie" /\ ret.err = ErrResponseNamedCookieNotPresent

\* the names of the cookies in a list
Names(cookies) == {cookies[k][1] : k \in 1..Len(cookies)}

\* C25: FilterCookies returns ErrNilCookieJar when the Client has no jar,
\* whatever the URL, the parse error for a malformed URL, and
\* ErrJarCookiesNotPresent when the jar holds no cookie for the URL;
\* FilterCookie returns ErrJarNamedCookieNotPresent when the jar holds cookies
\* but none of the name; after an exchange through the Client whose response
\* set a cookie, FilterCookie returns the cookie of that name.
C25_JarErrors ==
  [][(nCalls' # nCalls /\ ret'.op \in {"FilterCookies", "FilterCookie"}) =>
       \A urlOk \in BOOLEAN :
         /\ FilterCookies(urlOk) =>
              ret'.err = (IF rawClient.Jar = "nil" THEN ErrNilCookieJar
                          ELSE IF ~urlOk THEN URLParseError
                          ELSE IF jarCookies = <<>> THEN ErrJarCookiesNotPresent
                          ELSE Nil)
         /\ \A name \in CookieNames : FilterCookie(urlOk, name) =>
              /\ rawClient.Jar = "nil" => ret'.err = ErrNilCookieJar
              /\ (rawClient.Jar # "nil" /\ ~urlOk) => ret'.err = URLParseError
              /\ (rawClient.Jar # "nil" /\ urlOk /\ jarCookies # <<>>
                    /\ name \notin Names(jarCookies)) =>
                   ret'.err = ErrJarNamedCookieNotPresent
              /\ (rawClient.Jar # "nil" /\ urlOk /\ exchanges > 0
                    /\ lastExch.raw = "ok" /\ name \in Names(stream.cookies)) =>
                   /\ ret'.err = Nil
                   /\ ret'.val # <<>> /\ ret'.val[1][1] = name
                   /\ ret'.val[1] \in {stream.cookies[k] : k \in 1..Len(stream.cookies)}
     ]_vars

\* After an exchange whose response set the cookies sid and uid, FilterCookie
\* returned uid.
C25_Witness ==
  /\ pc = "done" /\ exchanges > 0 /\ lastExch.raw = "ok"
  /\ Len(stream.cookies) = 3
  /\ ret.op = "FilterCookie" /\ ret.err = Nil /\ ret.val = <<<<"uid", "3">>>>

\* the pairs of an output whose key is k
RECURSIVE PairsOf(_, _)
PairsOf(pairs, k) ==
  IF pairs = <<>> THEN <<>>
  ELSE (IF Head(pairs)[1] = k THEN <<Head(pairs)[2]>> ELSE <<>>)
         \o PairsOf(Tail(pairs), k)

\* the sum of the numbers of values that the keys of a map project to
RECURSIVE Projected(_, _)
Projected(m, keys) ==
  IF keys = {} THEN 0
  ELSE LET k == CHOOSE x \in keys : TRUE
       IN Len(filter(m[k])) + Projected(m, keys \ {k})

\* C26: Values.Encode and Headers.String write one pair per projected value,
\* the keys of the output in ascending order, the values of a key in array
\* order.
C26_Original ==
  kvOut.op # "none" =>
    LET out == kvOut.pairs
        m == kvOut.of
        name(k) == IF kvOut.op = "String" THEN CanonicalBytes(k) ELSE k
    IN /\ Len(out) = Projected(m, DOMAIN m)
       /\ \A a, b \in 1..Len(out) : a < b => ~Less(out[b][1], out[a][1])
       /\ \A k \in DOMAIN m : PairsOf(out, name(k)) = filter(m[k])
\* every field of the Client c
ClientFields == <<clientVars, rawClientVars, clientSettings>>

\* C27: no step taken once a dispatch of the Client has begun (Do, the
\* exchanges and waits of doWithRetry, onAfterResponse, and the same of the
\* dispatches that run beside it) changes a field of the Client, and every
\* dispatch, whenever it starts and whenever it returns, reads the Client as
\* it was configured.
C27_DispatchLeavesClient ==
  [][pc' # "setup" =>
       /\ UNCHANGED ClientFields
       /\ \A k \in 1..Len(concurrent') :
            /\ concurrent'[k].start = ClientOf("c")
            /\ concurrent'[k].end = ClientOf("c")]_vars

\* two dispatches ran beside the modelled one, on a Client that has headers,
\* interceptors and a retry policy and a Request that has headers of its own;
\* all three are over
C27_Witness ==
  /\ pc = "done" /\ exchanges = 2 /\ receiver = "c"
  /\ Len(concurrent) = 2
  /\ \A k \in 1..2 : concurrent[k].pc = "done"
  /\ DOMAIN clientSettings.Headers # {} /\ DOMAIN requestSettings.Headers # {}
  /\ requestInterceptors # <<>> /\ responseInterceptors # <<>> /\ cRetry # <<>>

\* the Content-Type header of the Request
ContentType == outbound.Header["Content-Type"]

\* C28: a call of a body setter on a Request without error leaves the
\* Request with the body of that setter and with the Content-Type of that
\* body: text/plain for SetText, the form type for SetForm, application/json
\* for SetJSON, multipart/form-data with the new writer's boundary for
\* SetMultipart, and for SetContent a Content-Type that SetContent set, not
\* none and not the one an earlier setter left for its own body.
C28_Original ==
  [][reqErr = Nil /\ reqErr' = Nil =>
       /\ SetText => body'.kind = "text"
                     /\ ContentType' = <<<<"text/plain; charset=utf-8">>>>
       /\ SetForm => body'.kind = "form"
                     /\ ContentType' = <<<<"application/x-www-form-urlencoded">>>>
       /\ SetJSON(TRUE) => body'.kind = "json"
                           /\ ContentType' = <<<<"application/json">>>>
       /\ (\E f \in FileKinds : SetMultipart(f)) =>
             body'.kind = "pipe" /\ body'.pipe = Len(enc')
             /\ ContentType' = <<FormDataContentType(Len(enc'))>>
       /\ SetContent =>
             body'.kind = "content"
             /\ ContentType' \notin
                  {<<>>, <<<<"text/plain; charset=utf-8">>>>,
                   <<<<"application/x-www-form-urlencoded">>>>,
                   <<<<"application/json">>>>}
                  \cup {<<FormDataContentType(n)>> : n \in 1..Len(enc)}]_vars

\* values occurs in all from position n + 1 on, in its order and in one piece
BlockAfter(all, n, values) ==
  \E at \in n..(Len(all) - Len(values)) :
    \A j \in 1..Len(values) : all[at + j] = <<values[j]>>

GzipDue ==
  /\ Len(stream.encoding) = 4
  /\ \A n \in 1..4 : ToLower(stream.encoding[n]) = <<103, 122, 105, 112>>[n]
  /\ stream.length # 0
  /\ stream.sent # "gzip.Reader"

\* C30: when an exchange returns a response, Client.do has put a gzip
\* decompressor around the body exactly if the Content-Encoding is gzip in
\* any case of the letters, ContentLength is not 0, the body was not a gzip
\* reader already and the decompressor could be created; the body is never
\* under two decompressors; and if the decompressor could not be created,
\* the body handed over is closed, Client.do returns the error, and the
\* error is the Response's Err when doWithRetry stops at this attempt.
C30_AutoGzip ==
  [][pc = "exchange" /\ pc' # "exchange" /\ lastExch'.raw # "nil" /\ ctxErr = Nil =>
       /\ stream'.wraps = (IF GzipDue' /\ stream'.gzOk THEN 1 ELSE 0)
       /\ stream'.wraps + (IF stream'.sent = "gzip.Reader" THEN 1 ELSE 0) <= 1
       /\ stream'.reader = "gzip.Reader" <=>
            (stream'.wraps = 1 \/ stream'.sent = "gzip.Reader")
       /\ GzipDue' /\ ~stream'.gzOk =>
            /\ stream'.underClosed
            /\ lastExch'.err = GzipError
            /\ resp'.err = GzipError]_vars

\* Client.do wrapped the body of a response whose Content-Encoding is "GZIP",
\* at the second attempt, after a first attempt that failed
C30_Witness ==
  /\ pc = "done" /\ exchanges = 2 /\ resp.raw # "nil" /\ resp.err = Nil
  /\ stream.encoding = <<71, 90, 73, 80>>
  /\ stream.wraps = 1 /\ stream.reader = "gzip.Reader" /\ stream.underClosed

\* C32 (as stated): once the Response has cached its body, no step changes
\* the cached bytes: a use of the buffer pool by another Response or by
\* jsonMarshal included.
C32_Original ==
  [][(pc = "done" /\ respBody # <<>>) => respBody' = respBody]_vars

\* C31 (as stated): whenever an exchange begins for a Request whose body was
\* set by SetJSON, the bytes of the body are the JSON encoding of the value
\* that was passed to SetJSON.
C31_Original ==
  (pc = "exchange" /\ body.kind = "json") => body.data = Payload

\* C33 (as stated): when the first attempt of a dispatch transmitted the
\* body of the Request and was answered, every later attempt transmits the
\* same bytes.
C33_Original ==
  (body.kind # "none" /\ hist.bodies # <<>> /\ hist.bodies[1].response) =>
    \A k \in 1..Len(hist.bodies) : hist.bodies[k].data = hist.bodies[1].data

\* C34 (as stated): when Do has returned, at most one body of the responses
\* that the exchanges of the dispatch returned has not been closed.
C34_Original ==
  pc = "done" => hist.unclosed <= 1
\* ---------------------------------------- reading under a request timeout
\* A Request with or without a timeout is dispatched once, and the body of
\* the Response is read after Do has returned.
NextTimeoutRead ==
  \/ \E t \in {0, MaxTimeout} : SetTimeout(t)
  \/ DoStart
  \/ ExchangeBegin
  \/ ExchangeReturn
  \/ Tick
  \/ DoReturn
  \/ Content
  \/ Text
  \/ JSON

SpecTimeoutRead == InitWith(ServerBodies) /\ [][NextTimeoutRead]_vars

\* C35: when the exchange of a request with a timeout completed in time, no
\* Content, Text or JSON call on the Response that Do returned fails because
\* the timeout's context was cancelled: the body can be read to its end.
C35_Original ==
  (pc = "done" /\ toDeadline # 0 /\ resp.err = Nil /\ resp.raw # "nil"
     /\ ret.op \in {"Content", "Text", "JSON"}) => ret.err # Canceled

\* C36: a Response that Do returned without an error has a RawResponse, and
\* every retry policy held by the Client or the Request, the default policy
\* and the policy a dispatch runs under have attempts >= 1.
C36_ResponseOrError ==
  /\ (pc = "done" /\ resp.err = Nil) => resp.raw # "nil"
  /\ defaultRetry.attempts >= 1
  /\ cRetry # <<>> => cRetry[1].attempts >= 1
  /\ rRetry # <<>> => rRetry[1].attempts >= 1
  /\ pc \in {"attempt", "exchange", "sleep", "after"} => retry.attempts >= 1

\* SetRetry(0, ...) was called, and the dispatch made its one exchange
C36_Witness ==
  /\ pc = "done" /\ rRetryArg = 0 /\ rRetry = <<>>
  /\ resp.err = Nil /\ resp.raw # "nil" /\ exchanges = 1

\* C37: a Response that Do returns without a RawResponse has been handed to
\* no response interceptor.
C37_Original == (pc = "done" /\ resp.raw = "nil") => respLog = <<>>

\* ------------------------------------------- the encoder goroutine's end
\* A Request gets a multipart body, maybe another body after it, and is
\* dispatched or not.
NextEncoder ==
  \/ \E f \in FileKinds : SetMultipart(f)
  \/ SetText
  \/ \E k \in 1..Len(enc) : EncoderNoName(k)
  \/ \E k \in 1..Len(enc) : EncoderWrite(k)
  \/ \E k \in 1..Len(enc) : EncoderWriteClosed(k)
  \/ \E k \in 1..Len(enc) : EncoderCancel(k)
  \/ \E k \in 1..Len(enc) : EncoderClose(k)
  \/ DoStart
  \/ ExchangeBegin
  \/ ExchangeReturn
  \/ DoReturn

\* the steps of the encoder goroutines
EncoderStep ==
  \E k \in 1..Len(enc) :
    \/ EncoderNoName(k)
    \/ EncoderWrite(k)
    \/ EncoderWriteClosed(k)
    \/ EncoderCancel(k)
    \/ EncoderClose(k)

\* The scheduler runs a goroutine that can take a step, and a dispatch that
\* has begun goes on; nothing makes the program call a setter or Do.
SpecEncoder ==
  /\ Init /\ [][NextEncoder]_vars
  /\ WF_vars(EncoderStep)
  /\ WF_vars(ExchangeBegin \/ ExchangeReturn \/ DoReturn)

\* C38: every encoder goroutine that SetMultipart started comes to its end.
C38_Original == (enc # <<>>) ~> (\A k \in 1..Len(enc) : enc[k].pc = "done")

\* C39: after a Content, JSON or XML call that failed having read only a
\* part of the body, the next Content, Text, JSON or XML call on the
\* Response does not return with a nil error.
C39_Original ==
  [][(/\ resp.err = Nil
      /\ ret.op \in {"Content", "JSON", "XML"} /\ ret.err # Nil
      /\ respBody # <<>> /\ respBody[1] # <<>> /\ respBody[1] # stream.data
      /\ nCalls' = nCalls + 1
      /\ ret'.op \in {"Content", "Text", "JSON", "XML"})
     => ret'.err # Nil]_vars

\* C40: RawRequest.GetBody (and with it ContentLength) is that of the body
\* the Request holds, the one the last body setter set: a replay of that
\* body, and none for the pipe of SetMultipart.
C40_Original ==
  body.kind # "none" => body.getBody = (IF body.kind = "pipe" THEN "" ELSE body.kind)

====
